---------------------------- MODULE Spec2Model ----------------------------
(***************************************************************************)
(* Sliding-tile puzzle solvers of the repository:                          *)
(*   src/8puzzleproblem.py        3x3 board, A* search (PuzzleSolver)      *)
(*   src/Fifteen_Puzzle_Solver.py 4x4 board, iterative deepening           *)
(*                                (IDSSolver)                              *)
(* Boards are tuples of rows; Python's 0-based (row, col) positions are    *)
(* kept and shifted by one only where a tuple is indexed.                  *)
(***************************************************************************)
EXTENDS Integers, Sequences, FiniteSets, TLC

VARIABLES
    program,        \* which script runs: "puzzle8", "puzzle15", "walk8", "walk15"
    \* ---- src/8puzzleproblem.py: a PuzzleSolver object and its solve() call
    initial_state,  \* PuzzleSolver.initial_state (a PuzzleState node)
    moves_made,     \* PuzzleSolver.moves_made
    open_set,       \* solve(): the heap list
    closed_set,     \* solve(): the set of expanded states (keyed by board)
    pc8,            \* "idle" (no call active) | "loop" (inside while open_set)
    results8,       \* the values returned by the solve() calls so far
    pops8,          \* number of heappop calls made by the current/last solve()
    expansions8,    \* number of runs of the neighbour loop (lines 103-109) in it
    \* ---- src/Fifteen_Puzzle_Solver.py: an IDSSolver object and its solve() call
    initial15,      \* IDSSolver.initial_state.board
    visited_states, \* IDSSolver.visited_states
    current_path,   \* IDSSolver.current_path
    solution,       \* IDSSolver.solution
    max_depth,      \* solve(max_depth): the argument of the active call
    depth15,        \* solve(): the loop variable of for depth in range(max_depth)
    stack,          \* the active dls() calls, outermost first
    rv,             \* value just returned by a dls() call: "none" | "True" | "False"
    pc15,           \* "idle" | "for" | "dls"
    results15,      \* the values returned by the solve() calls so far
    dls_calls,      \* number of dls() calls made by the current/last solve()
    calls_log,      \* dls_calls at the return of each solve() call so far
    replay,         \* main(): the solution replay (current board, moves left)
    \* ---- legal-move walks over boards (parity checks)
    wboard,         \* the board the walk is at (create_random_board: current_board)
    wblank,         \* create_random_board: blank_pos
    worigin,        \* where the walk started
    wleft,          \* moves the walk may still make
    \* ---- the custom-board prompts of the two main programs
    input_board,    \* get_user_input / main: board, the rows accepted so far
    used_numbers,   \* get_user_input: used_numbers
    handed,         \* <<>>, or <<the board main has handed to its solver>>
    \* ---- src/Towerofhannoi.py: a HanoiSolver, its HanoiState and their calls
    num_disks,      \* HanoiState.num_disks
    towers,         \* HanoiState.towers: the disks lists of towers A, B, C
    hanoi_moves,    \* HanoiState.moves
    current_move,   \* HanoiState.current_move
    hanoi_calls,    \* the active _move_tower calls, outermost first
    hanoi_pc,       \* "idle" | "solve" | "returned" | "raised"
    last_return,    \* what the last make_move / undo_move call returned or raised
    refused_moves,  \* make_move calls of solve that returned False so far
    not_undone,     \* the towers as they were before each move not yet undone
    \* ---- src/Missonariesandcannibals.py: a MissionariesCannibalsGame and solve()
    total_missionaries, \* MissionariesCannibalsGame.total_missionaries
    total_cannibals,    \* MissionariesCannibalsGame.total_cannibals
    boat_capacity,      \* MissionariesCannibalsGame.boat_capacity
    mc_queue,       \* solve(): queue, the paths waiting (a deque)
    mc_visited,     \* solve(): visited
    mc_pc,          \* "idle" | "loop" (inside while queue) | "returned"
    mc_result,      \* <<>> before the return, then <<the value returned>>
    \* ---- src/WaterJugSolver.py: a WaterJugSolver, solve_bfs() then solve_dfs()
    jug1_capacity,  \* WaterJugSolver.jug1_capacity
    jug2_capacity,  \* WaterJugSolver.jug2_capacity
    jug_target,     \* WaterJugSolver.target
    jug_visited,    \* WaterJugSolver.visited
    jug_pending,    \* solve_bfs: queue / solve_dfs: stack, of (state, path) pairs
    jug_pc,         \* "idle" | "bfs" | "between" | "dfs" | "done"
    bfs_path,       \* <<>> before solve_bfs returns, then <<the value returned>>
    dfs_path        \* <<>> before solve_dfs returns, then <<the value returned>>

vars8  == <<initial_state, moves_made, open_set, closed_set, pc8, results8, pops8,
            expansions8>>
vars15 == <<initial15, visited_states, current_path, solution, max_depth, depth15,
            stack, rv, pc15, results15, dls_calls, calls_log, replay>>
varsW  == <<wboard, wblank, worigin, wleft>>
varsI  == <<input_board, used_numbers, handed>>
varsH  == <<num_disks, towers, hanoi_moves, current_move, hanoi_calls, hanoi_pc,
            last_return, refused_moves, not_undone>>
varsM  == <<total_missionaries, total_cannibals, boat_capacity, mc_queue,
            mc_visited, mc_pc, mc_result>>
varsJ  == <<jug1_capacity, jug2_capacity, jug_target, jug_visited, jug_pending,
            jug_pc, bfs_path, dfs_path>>
varsP  == <<varsH, varsM, varsJ>>
vars   == <<program, vars8, vars15, varsW, varsI, varsP>>

----------------------------------------------------------------------------
(* Bounds of the model *)

\* 3x3 inputs of the A* runs: boards at most this many moves from a seed board
MaxDist8 == 10
\* 4x4 inputs of the IDS runs: boards at most this many moves from a seed board
MaxDist15 == 6
\* largest max_depth argument handed to IDSSolver.solve
MaxDepthArg == 7
\* solve() calls made on one solver object
MaxCalls == 2
\* moves argument of create_random_board
MaxRandomMoves == 8
\* length of a get_neighbors walk from a custom 4x4 board
MaxWalk15 == 4
\* largest number of disks handed to HanoiSolver / HanoiState
MaxDisks == 5
\* longest HanoiState.moves list the make_move / undo_move calls may build
MaxHanoiMoves == 4
\* largest number of missionaries, and of cannibals, of a game
MaxPeople == 3
\* largest boat capacity of a game
MaxBoat == 3
\* largest capacity of a jug
MaxJug == 4
\* largest target amount
MaxTarget == 5

----------------------------------------------------------------------------
(* Helpers *)

Abs(x) == IF x < 0 THEN -x ELSE x

RECURSIVE SumSeq(_)
SumSeq(s) == IF s = <<>> THEN 0 ELSE Head(s) + SumSeq(Tail(s))

\* the empty parent link (Python None) and a link to node p
NoParent == <<>>
ParentLink(p) == <<p>>

\* a 3x3 / 4x4 tuple of tuples whose cell (i, j), 0-based, is F(i, j)
Grid3(F(_, _)) == << <<F(0,0), F(0,1), F(0,2)>>,
                     <<F(1,0), F(1,1), F(1,2)>>,
                     <<F(2,0), F(2,1), F(2,2)>> >>
Grid4(F(_, _)) == << <<F(0,0), F(0,1), F(0,2), F(0,3)>>,
                     <<F(1,0), F(1,1), F(1,2), F(1,3)>>,
                     <<F(2,0), F(2,1), F(2,2), F(2,3)>>,
                     <<F(3,0), F(3,1), F(3,2), F(3,3)>> >>

\* board[i][j] with Python's 0-based indices
Cell(board, i, j) == board[i + 1][j + 1]

\* row-major flattening of a board
RECURSIVE Flatten(_)
Flatten(board) == IF board = <<>> THEN <<>> ELSE Head(board) \o Flatten(Tail(board))

\* number of pairs i < j with flat[i] > flat[j]
Inversions(flat) ==
    Cardinality({p \in (1..Len(flat)) \X (1..Len(flat)) :
                    p[1] < p[2] /\ flat[p[1]] > flat[p[2]]})

----------------------------------------------------------------------------
(* src/8puzzleproblem.py : PuzzleState *)

GOAL8 == << <<1, 2, 3>>, <<4, 5, 6>>, <<7, 8, 0>> >>

\* get_blank_pos: the first (i, j) in row-major order holding 0
get_blank_pos(board) ==
    LET zeros == {p \in (0..2) \X (0..2) : Cell(board, p[1], p[2]) = 0}
    IN  CHOOSE p \in zeros : \A q \in zeros : 3 * p[1] + p[2] <= 3 * q[1] + q[2]

\* manhattan_distance without the test if tile != 0: the blank is counted as
\* a tile whose home is the last cell
manhattan_distance8_withblank(board) ==
    SumSeq([k \in 1..9 |->
        LET i == (k - 1) \div 3
            j == (k - 1) % 3
            t == IF Cell(board, i, j) = 0 THEN 9 ELSE Cell(board, i, j)
        IN  Abs(((t - 1) \div 3) - i) + Abs(((t - 1) % 3) - j)])

manhattan_distance8(board) ==
    SumSeq([k \in 1..9 |->
        LET i == (k - 1) \div 3
            j == (k - 1) % 3
            t == Cell(board, i, j)
        IN  IF t # 0
            THEN Abs(((t - 1) \div 3) - i) + Abs(((t - 1) % 3) - j)
            ELSE 0])

is_goal(state) == state.board = GOAL8

\* PuzzleState.__init__ with the depth left out of the cost (greedy best-first)
PuzzleState8_greedy(board, parent, move, depth) ==
    [board |-> board, parent |-> parent, move |-> move, depth |-> depth,
     cost |-> manhattan_distance8(board)]

\* PuzzleState.__init__
PuzzleState8(board, parent, move, depth) ==
    [board |-> board, parent |-> parent, move |-> move, depth |-> depth,
     cost |-> depth + manhattan_distance8(board)]

\* __lt__ with the comparison turned round
lt8_reversed(a, b) == a.cost > b.cost

\* PuzzleState.__lt__
lt8(a, b) == a.cost < b.cost

\* the moves table labelled by the direction the tile moves, as in the 15-puzzle
MOVES8_tiledir ==
    << <<"DOWN", -1, 0>>, <<"UP", 1, 0>>, <<"RIGHT", 0, -1>>, <<"LEFT", 0, 1>> >>

\* the moves table of get_neighbors: label, dx, dy
MOVES8 == << <<"UP", -1, 0>>, <<"DOWN", 1, 0>>, <<"LEFT", 0, -1>>, <<"RIGHT", 0, 1>> >>

\* the board after swapping cells (x, y) and (nx, ny)
swap8(board, x, y, nx, ny) ==
    LET F(i, j) == IF i = x /\ j = y THEN Cell(board, nx, ny)
                   ELSE IF i = nx /\ j = ny THEN Cell(board, x, y)
                   ELSE Cell(board, i, j)
    IN  Grid3(F)

\* line 57 as new_board = self.board[:]: a new outer list of the same rows
copy_rows8_shared(board) == [rows |-> board, shared |-> 1..3]

\* line 57, new_board = [row[:] for row in self.board]: the new list's rows,
\* and which of them are the very row objects of self.board (none: each
\* row[:] is a new list)
copy_rows8(board) == [rows |-> board, shared |-> {}]

\* self.board at the end of the for loop of get_neighbors: the assignment of
\* line 58 writes rows x and new_x of new_board, which reach self.board
\* through the rows the two lists share
RECURSIVE board_after_moves8(_, _, _, _)
board_after_moves8(self_board, x, y, moves) ==
    IF moves = <<>> THEN self_board
    ELSE LET new_board == copy_rows8(self_board)
             written == swap8(new_board.rows, x, y,
                              x + Head(moves)[2], y + Head(moves)[3])
             after == [i \in 1..3 |-> IF i \in new_board.shared
                                      THEN written[i] ELSE self_board[i]]
         IN  board_after_moves8(after, x, y, Tail(moves))

\* self.board once get_neighbors has returned
board_after_get_neighbors8(state) ==
    LET pos == get_blank_pos(state.board)
        x == pos[1]
        y == pos[2]
        inb(m) == /\ 0 <= x + m[2] /\ x + m[2] < 3
                  /\ 0 <= y + m[3] /\ y + m[3] < 3
    IN  board_after_moves8(state.board, x, y, SelectSeq(MOVES8, inb))

\* get_neighbors with the lower bounds tested strictly (0 < new_x, 0 < new_y)
get_neighbors8_strict(state) ==
    LET pos == get_blank_pos(state.board)
        x == pos[1]
        y == pos[2]
        inb(m) == /\ 0 < x + m[2] /\ x + m[2] < 3
                  /\ 0 < y + m[3] /\ y + m[3] < 3
        ok == SelectSeq(MOVES8, inb)
    IN  [k \in 1..Len(ok) |->
            PuzzleState8(swap8(state.board, x, y, x + ok[k][2], y + ok[k][3]),
                         ParentLink(state), ok[k][1], state.depth + 1)]

\* get_neighbors: one child node per in-bounds direction, in table order
get_neighbors8(state) ==
    LET pos == get_blank_pos(state.board)
        x == pos[1]
        y == pos[2]
        inb(m) == /\ 0 <= x + m[2] /\ x + m[2] < 3
                  /\ 0 <= y + m[3] /\ y + m[3] < 3
        ok == SelectSeq(MOVES8, inb)
    IN  [k \in 1..Len(ok) |->
            PuzzleState8(swap8(state.board, x, y, x + ok[k][2], y + ok[k][3]),
                         ParentLink(state), ok[k][1], state.depth + 1)]

----------------------------------------------------------------------------
(* heapq, as called by PuzzleSolver.solve (positions are 0-based) *)

RECURSIVE siftdown(_, _, _, _)
siftdown(heap, startpos, pos, newitem) ==
    IF pos > startpos
    THEN LET parentpos == (pos - 1) \div 2
             parent == heap[parentpos + 1]
         IN  IF lt8(newitem, parent)
             THEN siftdown([heap EXCEPT ![pos + 1] = parent], startpos, parentpos, newitem)
             ELSE [heap EXCEPT ![pos + 1] = newitem]
    ELSE [heap EXCEPT ![pos + 1] = newitem]

RECURSIVE siftup(_, _, _, _)
siftup(heap, startpos, pos, newitem) ==
    LET endpos == Len(heap)
        childpos == 2 * pos + 1
        rightpos == childpos + 1
    IN  IF childpos < endpos
        THEN LET c == IF rightpos < endpos /\ ~lt8(heap[childpos + 1], heap[rightpos + 1])
                      THEN rightpos ELSE childpos
             IN  siftup([heap EXCEPT ![pos + 1] = heap[c + 1]], startpos, c, newitem)
        ELSE siftdown(heap, startpos, pos, newitem)

heappush(heap, item) == siftdown(Append(heap, item), 0, Len(heap), item)

\* heappop: <<the smallest item, the heap without it>>
heappop(heap) ==
    LET lastelt == heap[Len(heap)]
        rest == SubSeq(heap, 1, Len(heap) - 1)
    IN  IF rest # <<>>
        THEN <<rest[1], siftup(rest, 0, 0, lastelt)>>
        ELSE <<lastelt, rest>>

----------------------------------------------------------------------------
(* src/8puzzleproblem.py : PuzzleSolver *)

\* is_solvable with the blank counted among the tiles
is_solvable8_withblank(board) == Inversions(Flatten(board)) % 2 = 0

is_solvable8(board) ==
    LET flat_board == SelectSeq(Flatten(board), LAMBDA num : num # 0)
    IN  Inversions(flat_board) % 2 = 0

\* get_solution_path appending each move instead of inserting it at the front
RECURSIVE get_solution_path_append(_, _)
get_solution_path_append(moves, current) ==
    IF current.parent # NoParent
    THEN get_solution_path_append(Append(moves, current.move), current.parent[1])
    ELSE moves

\* get_solution_path: walk the parent links, inserting each move at the front
RECURSIVE get_solution_path(_, _)
get_solution_path(moves, current) ==
    IF current.parent # NoParent
    THEN get_solution_path(<<current.move>> \o moves, current.parent[1])
    ELSE moves

\* the neighbour loop with the closed-set test inverted
RECURSIVE push_neighbors_inverted(_, _, _)
push_neighbors_inverted(heap, neighbors, closed) ==
    IF neighbors = <<>> THEN heap
    ELSE push_neighbors_inverted(
            IF Head(neighbors).board \notin closed THEN heap
            ELSE heappush(heap, Head(neighbors)),
            Tail(neighbors), closed)

\* for neighbor in neighbors: skip it when in closed_set, else heappush
RECURSIVE push_neighbors(_, _, _)
push_neighbors(heap, neighbors, closed) ==
    IF neighbors = <<>> THEN heap
    ELSE push_neighbors(
            IF Head(neighbors).board \in closed THEN heap
            ELSE heappush(heap, Head(neighbors)),
            Tail(neighbors), closed)

\* the value returned by solve(): None, or the result dict.  The dict's 'moves'
\* entry is the list object self.moves_made itself, so its current content is
\* moves_made (ResultMoves); moves_at_return records what it held on return.
NoneResult8 == [none |-> TRUE, nodes_explored |-> 0, solution_depth |-> 0,
                moves_at_return |-> <<>>]
DictResult8(moves, closed, state) ==
    [none |-> FALSE, nodes_explored |-> Cardinality(closed),
     solution_depth |-> state.depth, moves_at_return |-> moves]
ResultMoves(r) == moves_made

----------------------------------------------------------------------------
(* src/Fifteen_Puzzle_Solver.py : PuzzleState *)

GOAL_STATE ==
    LET F(i, j) == IF i * 4 + j < 15 THEN i * 4 + j + 1 ELSE 0
    IN  Grid4(F)

\* get_blank_position: the inner break leaves the outer loop running, so the
\* last row holding a 0 wins, with the first column holding a 0 in that row
get_blank_position(board) ==
    LET rows == {i \in 0..3 : \E j \in 0..3 : Cell(board, i, j) = 0}
        i == CHOOSE r \in rows : \A q \in rows : q <= r
        cols == {j \in 0..3 : Cell(board, i, j) = 0}
        j == CHOOSE c \in cols : \A q \in cols : c <= q
    IN  <<i, j>>

manhattan_distance15(board) ==
    SumSeq([k \in 1..16 |->
        LET i == (k - 1) \div 4
            j == (k - 1) % 4
            tile == Cell(board, i, j)
        IN  IF tile # 0
            THEN Abs(((tile - 1) \div 4) - i) + Abs(((tile - 1) % 4) - j)
            ELSE 0])

\* the moves table labelled by the direction the blank moves, as in the 8-puzzle
MOVES15_blankdir ==
    << <<0, 1, "RIGHT">>, <<0, -1, "LEFT">>, <<1, 0, "DOWN">>, <<-1, 0, "UP">> >>

\* the moves table of get_neighbors: di, dj, label
MOVES15 == << <<0, 1, "LEFT">>, <<0, -1, "RIGHT">>, <<1, 0, "UP">>, <<-1, 0, "DOWN">> >>

swap15(board, i, j, ni, nj) ==
    LET F(r, c) == IF r = i /\ c = j THEN Cell(board, ni, nj)
                   ELSE IF r = ni /\ c = nj THEN Cell(board, i, j)
                   ELSE Cell(board, r, c)
    IN  Grid4(F)

\* get_neighbors: <<board, move>> per in-bounds direction, in table order
get_neighbors15(board) ==
    LET pos == get_blank_position(board)
        i == pos[1]
        j == pos[2]
        inb(m) == /\ 0 <= i + m[1] /\ i + m[1] < 4
                  /\ 0 <= j + m[2] /\ j + m[2] < 4
        ok == SelectSeq(MOVES15, inb)
    IN  [k \in 1..Len(ok) |->
            <<swap15(board, i, j, i + ok[k][1], j + ok[k][2]), ok[k][3]>>]

\* PuzzleState.__hash__: hash(self.board).  The model keys the hash sets by
\* the board itself (no two boards the model reaches collide).
hash15(board) == board

----------------------------------------------------------------------------
(* src/Fifteen_Puzzle_Solver.py : IDSSolver *)

\* is_solvable with the odd-width rule: the blank row ignored
is_solvable15_noblankrow(board) ==
    Inversions(SelectSeq(Flatten(board), LAMBDA num : num # 0)) % 2 = 0

is_solvable15(board) ==
    LET flat_board == SelectSeq(Flatten(board), LAMBDA num : num # 0)
        zrows == {i \in 0..3 : \E j \in 0..3 : Cell(board, i, j) = 0}
        blank_row == IF zrows = {} THEN 0
                     ELSE CHOOSE r \in zrows : \A q \in zrows : q <= r
        inversions == Inversions(flat_board)
        blank_row_from_bottom == 3 - blank_row
    IN  (blank_row_from_bottom % 2 = 0) <=> (inversions % 2 = 0)

\* a dls(state, depth, path) call: stage "enter" runs lines 101-117, stage
\* "loop" is the for loop over the neighbours, idx the next one to try;
\* entry_path records self.current_path as the call found it
Frame(state, depth, path) ==
    [state |-> state, depth |-> depth, path |-> path, stage |-> "enter", idx |-> 1,
     entry_path |-> {}]

\* the value returned by solve(): None or a list of moves
NoneResult15 == [none |-> TRUE, moves |-> <<>>]
ListResult15(moves) == [none |-> FALSE, moves |-> moves]

----------------------------------------------------------------------------
(* Inputs: the boards handed to the solvers *)

Range(s) == {s[k] : k \in 1..Len(s)}

\* the boards one legal move away from board b
NeighborBoards8(b) ==
    {n.board : n \in Range(get_neighbors8(PuzzleState8(b, NoParent, "None", 0)))}
NeighborBoards15(b) == {n[1] : n \in Range(get_neighbors15(b))}

\* Balls8(S, k)[d + 1]: the boards at most d moves from a board of S, d = 0..k
RECURSIVE Balls8(_, _)
Balls8(S, k) ==
    IF k = 0 THEN <<S>>
    ELSE LET prev == Balls8(S, k - 1)
         IN  Append(prev, prev[k] \cup UNION {NeighborBoards8(b) : b \in prev[k]})

RECURSIVE Balls15(_, _)
Balls15(S, k) ==
    IF k = 0 THEN <<S>>
    ELSE LET prev == Balls15(S, k - 1)
         IN  Append(prev, prev[k] \cup UNION {NeighborBoards15(b) : b \in prev[k]})

\* Example 2 of the specification: the goal with tiles 7 and 8 exchanged
SWAPPED8 == << <<1, 2, 3>>, <<4, 5, 6>>, <<8, 7, 0>> >>
\* the goal with tiles 14 and 15 exchanged
SWAPPED15 ==
    LET F(i, j) == IF Cell(GOAL_STATE, i, j) = 14 THEN 15
                   ELSE IF Cell(GOAL_STATE, i, j) = 15 THEN 14
                   ELSE Cell(GOAL_STATE, i, j)
    IN  Grid4(F)

\* boards around the goal (one more ring than the inputs, for the distances)
GoalBalls8 == Balls8({GOAL8}, MaxDist8 + 1)
GoalBalls15 == Balls15({GOAL_STATE}, MaxDist15 + 1)

\* number of moves of a shortest sequence of legal moves between b and the
\* goal (moves are reversible), by breadth-first search from the goal
TrueDist8(b) == CHOOSE d \in 0..(MaxDist8 + 1) :
                    /\ b \in GoalBalls8[d + 1]
                    /\ d > 0 => b \notin GoalBalls8[d]
TrueDist15(b) == CHOOSE d \in 0..(MaxDist15 + 1) :
                    /\ b \in GoalBalls15[d + 1]
                    /\ d > 0 => b \notin GoalBalls15[d]

Boards8 == GoalBalls8[MaxDist8 + 1] \cup Balls8({SWAPPED8}, 1)[2]
Boards15 == GoalBalls15[MaxDist15 + 1] \cup Balls15({SWAPPED15}, 1)[2]

----------------------------------------------------------------------------
(* Initial states *)

Idle8 ==
    /\ initial_state = PuzzleState8(GOAL8, NoParent, "None", 0)
    /\ moves_made = <<>>
    /\ open_set = <<>>
    /\ closed_set = {}
    /\ pc8 = "idle"
    /\ results8 = <<>>
    /\ pops8 = 0
    /\ expansions8 = 0

Idle15 ==
    /\ initial15 = GOAL_STATE
    /\ visited_states = {}
    /\ current_path = {}
    /\ solution = <<>>
    /\ max_depth = 0
    /\ depth15 = 0
    /\ stack = <<>>
    /\ rv = "none"
    /\ pc15 = "idle"
    /\ results15 = <<>>
    /\ dls_calls = 0
    /\ calls_log = <<>>
    /\ replay = [stage |-> "off", board |-> GOAL_STATE, todo |-> <<>>]

IdleW ==
    /\ wboard = <<>>
    /\ wblank = <<>>
    /\ worigin = "none"
    /\ wleft = 0

IdleI ==
    /\ input_board = <<>>
    /\ used_numbers = {}
    /\ handed = <<>>

IdleH ==
    /\ num_disks = 0
    /\ towers = << <<>>, <<>>, <<>> >>
    /\ hanoi_moves = <<>>
    /\ current_move = -1
    /\ hanoi_calls = <<>>
    /\ hanoi_pc = "idle"
    /\ last_return = "none"
    /\ refused_moves = 0
    /\ not_undone = <<>>

IdleM ==
    /\ total_missionaries = 0
    /\ total_cannibals = 0
    /\ boat_capacity = 0
    /\ mc_queue = <<>>
    /\ mc_visited = {}
    /\ mc_pc = "idle"
    /\ mc_result = <<>>

IdleJ ==
    /\ jug1_capacity = 0
    /\ jug2_capacity = 0
    /\ jug_target = 0
    /\ jug_visited = {}
    /\ jug_pending = <<>>
    /\ jug_pc = "idle"
    /\ bfs_path = <<>>
    /\ dfs_path = <<>>

IdleP == IdleH /\ IdleM /\ IdleJ

\* solver = PuzzleSolver(initial_board): PuzzleSolver.__init__
Init8 ==
    /\ program = "puzzle8"
    /\ \E b \in Boards8 : initial_state = PuzzleState8(b, NoParent, "None", 0)
    /\ moves_made = <<>>
    /\ open_set = <<>>
    /\ closed_set = {}
    /\ pc8 = "idle"
    /\ results8 = <<>>
    /\ pops8 = 0
    /\ expansions8 = 0
    /\ Idle15 /\ IdleW /\ IdleI /\ IdleP

----------------------------------------------------------------------------
(* src/8puzzleproblem.py : PuzzleSolver.solve, one action per loop iteration *)

\* lines 78-88: the call, the parity test, the push of the root
Solve8Call ==
    /\ program = "puzzle8"
    /\ pc8 = "idle"
    /\ Len(results8) < MaxCalls
    /\ pops8' = 0
    /\ IF ~is_solvable8(initial_state.board)
       THEN /\ results8' = Append(results8, NoneResult8)
            /\ UNCHANGED <<open_set, closed_set, pc8, expansions8>>
       ELSE /\ open_set' = heappush(<<>>, initial_state)
            /\ closed_set' = {}
            /\ expansions8' = 0
            /\ pc8' = "loop"
            /\ UNCHANGED results8
    /\ UNCHANGED <<program, initial_state, moves_made, vars15, varsW, varsI, varsP>>

\* lines 90-111: the test of while open_set and one iteration of its body
Solve8Step ==
    /\ program = "puzzle8"
    /\ pc8 = "loop"
    /\ IF open_set = <<>>
       THEN /\ results8' = Append(results8, NoneResult8)
            /\ pc8' = "idle"
            /\ UNCHANGED <<initial_state, moves_made, open_set, closed_set, pops8,
                           expansions8>>
       ELSE LET popped == heappop(open_set)
                current_state == popped[1]
            IN  /\ pops8' = pops8 + 1
                /\ IF is_goal(current_state)
                   THEN LET moves == get_solution_path(moves_made, current_state)
                        IN  /\ moves_made' = moves
                            /\ results8' = Append(results8,
                                    DictResult8(moves, closed_set, current_state))
                            /\ pc8' = "idle"
                            /\ open_set' = popped[2]
                            /\ UNCHANGED <<initial_state, closed_set, expansions8>>
                   ELSE LET closed == closed_set \cup {current_state.board}
                        IN  /\ closed_set' = closed
                            /\ expansions8' = expansions8 + 1
                            /\ initial_state' =
                                 IF current_state.parent = NoParent
                                 THEN [initial_state EXCEPT !.board =
                                         board_after_get_neighbors8(current_state)]
                                 ELSE initial_state
                            /\ open_set' = push_neighbors(popped[2],
                                    get_neighbors8(current_state), closed)
                            /\ UNCHANGED <<moves_made, results8, pc8>>
    /\ UNCHANGED <<program, vars15, varsW, varsI, varsP>>

Next8 == Solve8Call \/ Solve8Step

Spec8 == Init8 /\ [][Next8]_vars

----------------------------------------------------------------------------
(* src/Fifteen_Puzzle_Solver.py : IDSSolver.solve and the recursion of dls *)

\* solver = IDSSolver(initial_state): IDSSolver.__init__; max_depth is the
\* argument the caller hands to every solve call on this solver
Init15 ==
    /\ program = "puzzle15"
    /\ initial15 \in Boards15
    /\ visited_states = {}
    /\ current_path = {}
    /\ solution = <<>>
    /\ max_depth \in 0..MaxDepthArg
    /\ depth15 = 0
    /\ stack = <<>>
    /\ rv = "none"
    /\ pc15 = "idle"
    /\ results15 = <<>>
    /\ dls_calls = 0
    /\ calls_log = <<>>
    /\ replay = [stage |-> "off", board |-> GOAL_STATE, todo |-> <<>>]
    /\ Idle8 /\ IdleW /\ IdleI /\ IdleP

Top == stack[Len(stack)]
Pop == SubSeq(stack, 1, Len(stack) - 1)
ReplaceTop(f) == [stack EXCEPT ![Len(stack)] = f]

\* solve without the parity test of lines 134-135
Solve15Call_noparity ==
    /\ program = "puzzle15"
    /\ pc15 = "idle"
    /\ replay.stage # "run"
    /\ Len(results15) < MaxCalls
    /\ dls_calls' = 0
    /\ depth15' = 0
    /\ replay' = [replay EXCEPT !.stage = "off"]
    /\ pc15' = "for"
    /\ UNCHANGED <<program, initial15, visited_states, current_path, solution,
                   max_depth, stack, rv, results15, calls_log, vars8, varsW, varsI, varsP>>

\* lines 132-137: the call and the parity test
Solve15Call ==
    /\ program = "puzzle15"
    /\ pc15 = "idle"
    /\ replay.stage # "run"
    /\ Len(results15) < MaxCalls
    /\ dls_calls' = 0
    /\ depth15' = 0
    /\ replay' = [replay EXCEPT !.stage = "off"]
    /\ IF ~is_solvable15(initial15)
       THEN /\ results15' = Append(results15, NoneResult15)
            /\ calls_log' = Append(calls_log, 0)
            /\ UNCHANGED pc15
       ELSE /\ pc15' = "for"
            /\ UNCHANGED <<results15, calls_log>>
    /\ UNCHANGED <<program, initial15, visited_states, current_path, solution,
                   max_depth, stack, rv, vars8, varsW, varsI, varsP>>

\* solve without self.current_path.clear() of line 140
Solve15For_noclear ==
    /\ program = "puzzle15"
    /\ pc15 = "for"
    /\ IF depth15 < max_depth
       THEN /\ visited_states' = {}
            /\ stack' = <<Frame(initial15, depth15, <<>>)>>
            /\ dls_calls' = dls_calls + 1
            /\ pc15' = "dls"
            /\ UNCHANGED <<results15, calls_log, current_path>>
       ELSE /\ results15' = Append(results15, NoneResult15)
            /\ calls_log' = Append(calls_log, dls_calls)
            /\ pc15' = "idle"
            /\ UNCHANGED <<visited_states, current_path, stack, dls_calls>>
    /\ UNCHANGED <<program, initial15, solution, max_depth, depth15, rv, replay,
                   vars8, varsW, varsI, varsP>>

\* lines 137-141 and 145-146: the next depth bound of for depth in
\* range(max_depth), or the return of None after the last one
Solve15For ==
    /\ program = "puzzle15"
    /\ pc15 = "for"
    /\ IF depth15 < max_depth
       THEN /\ visited_states' = {}
            /\ current_path' = {}
            /\ stack' = <<Frame(initial15, depth15, <<>>)>>
            /\ dls_calls' = dls_calls + 1
            /\ pc15' = "dls"
            /\ UNCHANGED <<results15, calls_log>>
       ELSE /\ results15' = Append(results15, NoneResult15)
            /\ calls_log' = Append(calls_log, dls_calls)
            /\ pc15' = "idle"
            /\ UNCHANGED <<visited_states, current_path, stack, dls_calls>>
    /\ UNCHANGED <<program, initial15, solution, max_depth, depth15, rv, replay,
                   vars8, varsW, varsI, varsP>>

\* the entry of a dls call without the Manhattan pruning of lines 108-110
DlsEnter_noprune ==
    /\ program = "puzzle15"
    /\ pc15 = "dls"
    /\ stack # <<>>
    /\ rv = "none"
    /\ Top.stage = "enter"
    /\ LET state == Top.state
           depth == Top.depth
           state_hash == hash15(state)
       IN  IF depth < 0
           THEN /\ rv' = "False" /\ stack' = Pop
                /\ UNCHANGED <<solution, current_path>>
           ELSE IF state = GOAL_STATE
           THEN /\ solution' = Top.path
                /\ rv' = "True" /\ stack' = Pop
                /\ UNCHANGED current_path
           ELSE IF state_hash \in current_path
           THEN /\ rv' = "False" /\ stack' = Pop
                /\ UNCHANGED <<solution, current_path>>
           ELSE /\ current_path' = current_path \cup {state_hash}
                /\ stack' = ReplaceTop([Top EXCEPT !.stage = "loop"])
                /\ UNCHANGED <<solution, rv>>
    /\ UNCHANGED <<program, initial15, visited_states, max_depth, depth15, pc15,
                   results15, dls_calls, calls_log, replay, vars8, varsW, varsI, varsP>>

\* lines 101-117: the entry of a dls call
DlsEnter ==
    /\ program = "puzzle15"
    /\ pc15 = "dls"
    /\ stack # <<>>
    /\ rv = "none"
    /\ Top.stage = "enter"
    /\ LET state == Top.state
           depth == Top.depth
           state_hash == hash15(state)
       IN  IF depth < 0
           THEN /\ rv' = "False" /\ stack' = Pop
                /\ UNCHANGED <<solution, current_path>>
           ELSE IF state = GOAL_STATE
           THEN /\ solution' = Top.path
                /\ rv' = "True" /\ stack' = Pop
                /\ UNCHANGED current_path
           ELSE IF manhattan_distance15(state) > depth
           THEN /\ rv' = "False" /\ stack' = Pop
                /\ UNCHANGED <<solution, current_path>>
           ELSE IF state_hash \in current_path
           THEN /\ rv' = "False" /\ stack' = Pop
                /\ UNCHANGED <<solution, current_path>>
           ELSE /\ current_path' = current_path \cup {state_hash}
                /\ stack' = ReplaceTop([Top EXCEPT !.stage = "loop"])
                /\ UNCHANGED <<solution, rv>>
    /\ UNCHANGED <<program, initial15, visited_states, max_depth, depth15, pc15,
                   results15, dls_calls, calls_log, replay, vars8, varsW, varsI, varsP>>

\* the loop of dls without self.current_path.remove(state_hash) of line 129
DlsLoop_noremove ==
    /\ program = "puzzle15"
    /\ pc15 = "dls"
    /\ stack # <<>>
    /\ rv = "none"
    /\ Top.stage = "loop"
    /\ LET neighbors == get_neighbors15(Top.state)
       IN  IF Top.idx > Len(neighbors)
           THEN /\ UNCHANGED current_path
                /\ rv' = "False" /\ stack' = Pop
                /\ UNCHANGED dls_calls
           ELSE LET next_state == neighbors[Top.idx][1]
                    move == neighbors[Top.idx][2]
                IN  IF hash15(next_state) \in visited_states
                    THEN /\ stack' = ReplaceTop([Top EXCEPT !.idx = @ + 1])
                         /\ UNCHANGED <<current_path, rv, dls_calls>>
                    ELSE /\ stack' = Append(stack,
                                [Frame(next_state, Top.depth - 1, Append(Top.path, move))
                                    EXCEPT !.entry_path = current_path])
                         /\ dls_calls' = dls_calls + 1
                         /\ UNCHANGED <<current_path, rv>>
    /\ UNCHANGED <<program, initial15, visited_states, solution, max_depth, depth15,
                   pc15, results15, calls_log, replay, vars8, varsW, varsI, varsP>>

\* lines 119-130: the for loop over the neighbours reaches the next one, or
\* its end (unmark and return False)
DlsLoop ==
    /\ program = "puzzle15"
    /\ pc15 = "dls"
    /\ stack # <<>>
    /\ rv = "none"
    /\ Top.stage = "loop"
    /\ LET neighbors == get_neighbors15(Top.state)
       IN  IF Top.idx > Len(neighbors)
           THEN /\ current_path' = current_path \ {hash15(Top.state)}
                /\ rv' = "False" /\ stack' = Pop
                /\ UNCHANGED dls_calls
           ELSE LET next_state == neighbors[Top.idx][1]
                    move == neighbors[Top.idx][2]
                IN  IF hash15(next_state) \in visited_states
                    THEN /\ stack' = ReplaceTop([Top EXCEPT !.idx = @ + 1])
                         /\ UNCHANGED <<current_path, rv, dls_calls>>
                    ELSE /\ stack' = Append(stack,
                                [Frame(next_state, Top.depth - 1, Append(Top.path, move))
                                    EXCEPT !.entry_path = current_path])
                         /\ dls_calls' = dls_calls + 1
                         /\ UNCHANGED <<current_path, rv>>
    /\ UNCHANGED <<program, initial15, visited_states, solution, max_depth, depth15,
                   pc15, results15, calls_log, replay, vars8, varsW, varsI, varsP>>

\* lines 126-127: a recursive dls call has returned to its caller's loop
DlsReturn ==
    /\ program = "puzzle15"
    /\ pc15 = "dls"
    /\ stack # <<>>
    /\ rv # "none"
    /\ IF rv = "True"
       THEN /\ stack' = Pop
            /\ UNCHANGED rv
       ELSE /\ stack' = ReplaceTop([Top EXCEPT !.idx = @ + 1])
            /\ rv' = "none"
    /\ UNCHANGED <<program, initial15, visited_states, current_path, solution,
                   max_depth, depth15, pc15, results15, dls_calls, calls_log,
                   replay, vars8, varsW, varsI, varsP>>

\* lines 141-143: the outermost dls call has returned to solve
Solve15Check ==
    /\ program = "puzzle15"
    /\ pc15 = "dls"
    /\ stack = <<>>
    /\ rv # "none"
    /\ rv' = "none"
    /\ IF rv = "True"
       THEN /\ results15' = Append(results15, ListResult15(solution))
            /\ calls_log' = Append(calls_log, dls_calls)
            /\ pc15' = "idle"
            /\ UNCHANGED depth15
       ELSE /\ depth15' = depth15 + 1
            /\ pc15' = "for"
            /\ UNCHANGED <<results15, calls_log>>
    /\ UNCHANGED <<program, initial15, visited_states, current_path, solution,
                   max_depth, stack, dls_calls, replay, vars8, varsW, varsI, varsP>>

----------------------------------------------------------------------------
(* src/Fifteen_Puzzle_Solver.py : main, the replay of a solution *)

\* lines 265-272: the cell the replay exchanges the blank with
replay_target(move, blank_row, blank_col) ==
    IF move = "UP" THEN <<blank_row + 1, blank_col>>
    ELSE IF move = "DOWN" THEN <<blank_row - 1, blank_col>>
    ELSE IF move = "LEFT" THEN <<blank_row, blank_col + 1>>
    ELSE <<blank_row, blank_col - 1>>

InGrid4(p) == p[1] \in 0..3 /\ p[2] \in 0..3

\* a Python list index of a list of 4: -4..-1 count from the end, anything
\* else outside 0..3 raises IndexError
PyIndexOk(k) == k \in (-4)..3
PyIndex(k) == IF k < 0 THEN k + 4 ELSE k

\* lines 274-275: the two assignments, in order
replay_board(board, blank, target) ==
    LET r == PyIndex(target[1])
        c == PyIndex(target[2])
        F(i, j) == IF i = r /\ j = c THEN 0
                   ELSE IF i = blank[1] /\ j = blank[2] THEN Cell(board, r, c)
                   ELSE Cell(board, i, j)
    IN  Grid4(F)

\* lines 240-242 and 249-256, 278-279: main reaches if solution only for a
\* board that passed is_solvable; a true value starts the replay, any other
\* prints "No solution found within the maximum depth!"
ReplayStart ==
    /\ program = "puzzle15"
    /\ pc15 = "idle"
    /\ replay.stage = "off"
    /\ results15 # <<>>
    /\ is_solvable15(initial15)
    /\ LET result == results15[Len(results15)]
       IN  IF ~result.none /\ result.moves # <<>>
           THEN replay' = [stage |-> "run", board |-> initial15, todo |-> result.moves]
           ELSE replay' = [replay EXCEPT !.stage = "no solution"]
    /\ UNCHANGED <<program, initial15, visited_states, current_path, solution,
                   max_depth, depth15, stack, rv, pc15, results15, dls_calls,
                   calls_log, vars8, varsW, varsI, varsP>>

\* lines 258-277: one iteration of for i, move in enumerate(solution, 1)
ReplayStep ==
    /\ program = "puzzle15"
    /\ replay.stage = "run"
    /\ LET blank == get_blank_position(replay.board)
           target == replay_target(Head(replay.todo), blank[1], blank[2])
       IN  IF PyIndexOk(target[1]) /\ PyIndexOk(target[2])
           THEN replay' = [stage |-> IF ~InGrid4(target) THEN "wrapped"
                                     ELSE IF Tail(replay.todo) = <<>> THEN "done"
                                     ELSE "run",
                           board |-> replay_board(replay.board, blank, target),
                           todo |-> Tail(replay.todo)]
           ELSE replay' = [replay EXCEPT !.stage = "IndexError"]
    /\ UNCHANGED <<program, initial15, visited_states, current_path, solution,
                   max_depth, depth15, stack, rv, pc15, results15, dls_calls,
                   calls_log, vars8, varsW, varsI, varsP>>

Next15 ==
    \/ Solve15Call
    \/ Solve15For
    \/ DlsEnter
    \/ DlsLoop
    \/ DlsReturn
    \/ Solve15Check
    \/ ReplayStart
    \/ ReplayStep

Spec15 == Init15 /\ [][Next15]_vars

----------------------------------------------------------------------------
(* Both solvers: one of the two scripts runs *)

Init == Init8 \/ Init15

Next == Next8 \/ Next15

Spec == Init /\ [][Next]_vars

----------------------------------------------------------------------------
(* Walks by legal moves, for the parity tests *)

\* every 3x3 board reachable by get_neighbors from the goal or from the goal
\* with tiles 7 and 8 exchanged
InitWalk8 ==
    /\ program = "walk8"
    /\ \/ worigin = "goal" /\ wboard = GOAL8
       \/ worigin = "swapped" /\ wboard = SWAPPED8
    /\ wblank = <<>>
    /\ wleft = 0
    /\ Idle8 /\ Idle15 /\ IdleI /\ IdleP

Walk8Step ==
    /\ program = "walk8"
    /\ wboard' \in NeighborBoards8(wboard)
    /\ UNCHANGED <<program, wblank, worigin, wleft, vars8, vars15, varsI, varsP>>

SpecWalk8 == InitWalk8 /\ [][Walk8Step]_vars

\* all boards obtained from the goal board by exchanging two cells
Transpositions15 ==
    {swap15(GOAL_STATE, a \div 4, a % 4, b \div 4, b % 4) :
        <<a, b>> \in {p \in (0..15) \X (0..15) : p[1] < p[2]}}

\* create_random_board lines 151-163: the goal board built cell by cell
random_start ==
    LET F(i, j) == IF i = 3 /\ j = 3 THEN 0 ELSE 4 * i + j + 1
    IN  Grid4(F)

\* create_random_board(moves) called (main, choice 1), or a custom board
\* entered (main, choice 2) from which get_neighbors is followed
InitWalk15 ==
    /\ program = "walk15"
    /\ \/ /\ worigin = "create_random_board"
          /\ wboard = random_start
          /\ wblank = <<3, 3>>
          /\ wleft \in 0..MaxRandomMoves
       \/ /\ worigin = "custom"
          /\ wboard \in Transpositions15
          /\ wblank = <<>>
          /\ wleft = MaxWalk15
    /\ Idle8 /\ Idle15 /\ IdleI /\ IdleP

\* create_random_board lines 166-182: one iteration of for _ in range(moves)
RandomMove ==
    /\ program = "walk15"
    /\ worigin = "create_random_board"
    /\ wleft > 0
    /\ LET possible_moves ==
               {d \in {<<-1, 0>>, <<1, 0>>, <<0, -1>>, <<0, 1>>} :
                   /\ 0 <= wblank[1] + d[1] /\ wblank[1] + d[1] < 4
                   /\ 0 <= wblank[2] + d[2] /\ wblank[2] + d[2] < 4}
       IN  IF possible_moves # {}
           THEN \E d \in possible_moves :
                   LET new_x == wblank[1] + d[1]
                       new_y == wblank[2] + d[2]
                       F(i, j) == IF i = new_x /\ j = new_y THEN 0
                                  ELSE IF i = wblank[1] /\ j = wblank[2]
                                       THEN Cell(wboard, new_x, new_y)
                                  ELSE Cell(wboard, i, j)
                   IN  /\ wboard' = Grid4(F)
                       /\ wblank' = <<new_x, new_y>>
           ELSE UNCHANGED <<wboard, wblank>>
    /\ wleft' = wleft - 1
    /\ UNCHANGED <<program, worigin, vars8, vars15, varsI, varsP>>

\* one legal move of get_neighbors from the board the walk is at
NeighborStep15 ==
    /\ program = "walk15"
    /\ worigin = "custom"
    /\ wleft > 0
    /\ wboard' \in NeighborBoards15(wboard)
    /\ wleft' = wleft - 1
    /\ UNCHANGED <<program, wblank, worigin, vars8, vars15, varsI, varsP>>

NextWalk15 == RandomMove \/ NeighborStep15

SpecWalk15 == InitWalk15 /\ [][NextWalk15]_vars

----------------------------------------------------------------------------
(* The custom-board prompts: get_user_input (8-puzzle), main (15-puzzle) *)

\* a typed line after .split() and map(int, ...): parsed is FALSE when int()
\* raised ValueError on a token, else row holds the numbers
Line(row) == [parsed |-> TRUE, row |-> row]
NotNumbers == [parsed |-> FALSE, row |-> <<>>]

\* the lines a user types at the 8-puzzle prompt: rows of well-formed boards,
\* and rows of the wrong length, with a repeated number, out of range
TypedLines8 ==
    {Line(b[i]) : b \in {GOAL8, SWAPPED8}, i \in 1..3}
    \cup {Line(<<4, 0, 6>>), Line(<<7, 5, 8>>), Line(<<1, 2>>), Line(<<1, 2, 3, 4>>),
          Line(<<4, 4, 6>>), Line(<<7, 8, 9>>), Line(<<-1, 5, 6>>), Line(<<5, 4, 1>>),
          NotNumbers}

\* the lines a user types at the 15-puzzle prompt
TypedLines15 ==
    {Line(b[i]) : b \in {GOAL_STATE, SWAPPED15}, i \in 1..4}
    \cup {Line(<<1, 2, 3>>), Line(<<13, 14, 15, 16>>), Line(<<-1, 2, 3, 4>>),
          Line(<<1, 1, 1, 1>>), NotNumbers}

InitInput ==
    /\ program \in {"input8", "input15"}
    /\ input_board = <<>>
    /\ used_numbers = {}
    /\ handed = <<>>
    /\ Idle8 /\ Idle15 /\ IdleW /\ IdleP

\* get_user_input, one pass of the while True loop of row i (lines 142-158);
\* the numbers of a row are added to used_numbers one by one, up to the first
\* one that raises.  After the third row the board is returned and main
\* hands it to PuzzleSolver (lines 169-174).
GetUserInputLine ==
    /\ program = "input8"
    /\ handed = <<>>
    /\ \E line \in TypedLines8 :
          LET row == line.row
              seen(k) == used_numbers \cup {row[m] : m \in 1..(k - 1)}
              raises(k) == row[k] < 0 \/ row[k] > 8 \/ row[k] \in seen(k)
              bad == {k \in 1..Len(row) : raises(k)}
              first == CHOOSE k \in bad : \A m \in bad : k <= m
          IN  IF ~line.parsed \/ Len(row) # 3
              THEN UNCHANGED <<input_board, used_numbers, handed>>
              ELSE IF bad # {}
              THEN /\ used_numbers' = seen(first)
                   /\ UNCHANGED <<input_board, handed>>
              ELSE /\ used_numbers' = seen(4)
                   /\ input_board' = Append(input_board, row)
                   /\ handed' = IF Len(input_board) = 2
                                THEN <<Append(input_board, row)>> ELSE <<>>
    /\ UNCHANGED <<program, vars8, vars15, varsW, varsP>>

\* main of the 15-puzzle, choice 2, one pass of the while True loop of row i
\* (lines 219-228).  After the fourth row main builds PuzzleState(tuple(board))
\* and IDSSolver(initial_state) and calls solver.is_solvable() (lines 230-240).
CustomPuzzleLine ==
    /\ program = "input15"
    /\ handed = <<>>
    /\ \E line \in TypedLines15 :
          LET row == line.row
          IN  IF ~line.parsed \/ Len(row) # 4
                 \/ ~(\A k \in 1..Len(row) : 0 <= row[k] /\ row[k] <= 15)
              THEN UNCHANGED <<input_board, handed>>
              ELSE /\ input_board' = Append(input_board, row)
                   /\ handed' = IF Len(input_board) = 3
                                THEN <<Append(input_board, row)>> ELSE <<>>
    /\ UNCHANGED <<program, used_numbers, vars8, vars15, varsW, varsP>>

NextInput == GetUserInputLine \/ CustomPuzzleLine

SpecInput == InitInput /\ [][NextInput]_vars

----------------------------------------------------------------------------
(* src/Towerofhannoi.py : Disk, Tower, HanoiState *)

\* a disk is its size (1, 2, ...); NoneDisk is the None that remove_disk and
\* peek return for an empty tower, and that add_disk can store
NoneDisk == 0

\* disk < other: Disk.__lt__, or the TypeError of None < anything
disk_lt(disk, other) ==
    IF disk = NoneDisk THEN "TypeError"
    ELSE IF other = NoneDisk THEN "False"
    ELSE IF disk < other THEN "True" ELSE "False"

\* Tower.peek
peek(disks) == IF disks = <<>> THEN NoneDisk ELSE disks[Len(disks)]

\* Tower.add_disk: the disks afterwards and what the call returned or raised
add_disk(disks, disk) ==
    IF disks = <<>> THEN [disks |-> Append(disks, disk), ret |-> "True"]
    ELSE LET smaller == disk_lt(disk, disks[Len(disks)])
         IN  IF smaller = "True"
             THEN [disks |-> Append(disks, disk), ret |-> "True"]
             ELSE [disks |-> disks, ret |-> smaller]

\* Tower.remove_disk: the disks afterwards and the disk returned
remove_disk(disks) ==
    IF disks = <<>> THEN [disks |-> disks, disk |-> NoneDisk]
    ELSE [disks |-> SubSeq(disks, 1, Len(disks) - 1), disk |-> disks[Len(disks)]]

\* HanoiState.__init__ lines 51-61: all the disks on tower A, largest first
initial_towers(n) == << [k \in 1..n |-> n - k + 1], <<>>, <<>> >>

\* HanoiState.is_valid_move (towers are numbered 0, 1, 2)
is_valid_move(tw, from_tower, to_tower) ==
    IF ~(0 <= from_tower /\ from_tower < 3 /\ 0 <= to_tower /\ to_tower < 3)
    THEN "False"
    ELSE IF tw[from_tower + 1] = <<>> THEN "False"
    ELSE IF peek(tw[to_tower + 1]) = NoneDisk THEN "True"
    ELSE disk_lt(peek(tw[from_tower + 1]), peek(tw[to_tower + 1]))

\* the HanoiState fields a call works on, with what the call returned
HanoiResult(tw, mv, cm, ret) ==
    [towers |-> tw, moves |-> mv, current_move |-> cm, ret |-> ret]

\* HanoiState.make_move; an exception leaves the fields as the statements
\* before it set them
make_move(tw, mv, cm, from_tower, to_tower) ==
    LET valid == is_valid_move(tw, from_tower, to_tower)
    IN  IF valid # "True" THEN HanoiResult(tw, mv, cm, valid)
        ELSE LET removed == remove_disk(tw[from_tower + 1])
                 tw1 == [tw EXCEPT ![from_tower + 1] = removed.disks]
                 added == add_disk(tw1[to_tower + 1], removed.disk)
                 tw2 == [tw1 EXCEPT ![to_tower + 1] = added.disks]
             IN  IF added.ret = "TypeError" THEN HanoiResult(tw1, mv, cm, "TypeError")
                 ELSE IF removed.disk = NoneDisk
                 THEN HanoiResult(tw2, mv, cm, "AttributeError")
                 ELSE HanoiResult(tw2,
                                  Append(mv, <<from_tower, to_tower, removed.disk>>),
                                  cm + 1, "True")

\* HanoiState.undo_move
undo_move(tw, mv, cm) ==
    IF cm >= 0
    THEN LET from_tower == mv[cm + 1][1]
             to_tower == mv[cm + 1][2]
             removed == remove_disk(tw[to_tower + 1])
             tw1 == [tw EXCEPT ![to_tower + 1] = removed.disks]
             added == add_disk(tw1[from_tower + 1], removed.disk)
             tw2 == [tw1 EXCEPT ![from_tower + 1] = added.disks]
         IN  IF added.ret = "TypeError" THEN HanoiResult(tw1, mv, cm, "TypeError")
             ELSE HanoiResult(tw2, mv, cm - 1, "True")
    ELSE HanoiResult(tw, mv, cm, "False")

\* HanoiState.is_solved
is_solved == Len(towers[3]) = num_disks

\* the fields after a make_move / undo_move call with result r; not_undone
\* keeps the towers as they were before each accepted move not yet undone
HanoiAfter(r, made) ==
    /\ towers' = r.towers
    /\ hanoi_moves' = r.moves
    /\ current_move' = r.current_move
    /\ last_return' = r.ret
    /\ not_undone' = IF r.ret # "True" THEN not_undone
                     ELSE IF made THEN Append(not_undone, towers)
                     ELSE IF not_undone = <<>> THEN not_undone
                     ELSE SubSeq(not_undone, 1, Len(not_undone) - 1)

----------------------------------------------------------------------------
(* src/Towerofhannoi.py : HanoiSolver *)

\* a _move_tower(height, source, target, auxiliary) call; at is "first"
\* (lines 151-153), "move" (lines 156-161) or "end" (the return)
MoveTowerCall(height, source, target, auxiliary) ==
    [height |-> height, source |-> source, target |-> target,
     auxiliary |-> auxiliary, at |-> "first"]

\* solver = HanoiSolver(num_disks): HanoiSolver.__init__, HanoiState.__init__
InitHanoi ==
    /\ program = "hanoi"
    /\ num_disks \in 1..MaxDisks
    /\ towers = initial_towers(num_disks)
    /\ hanoi_moves = <<>>
    /\ current_move = -1
    /\ hanoi_calls = <<>>
    /\ hanoi_pc = "idle"
    /\ last_return = "none"
    /\ refused_moves = 0
    /\ not_undone = <<>>
    /\ Idle8 /\ Idle15 /\ IdleW /\ IdleI /\ IdleM /\ IdleJ

\* solve with target and auxiliary exchanged in the outermost call
HanoiSolve_toB ==
    /\ program = "hanoi"
    /\ hanoi_pc = "idle"
    /\ hanoi_calls' = <<MoveTowerCall(num_disks, 0, 1, 2)>>
    /\ hanoi_pc' = "solve"
    /\ UNCHANGED <<program, num_disks, towers, hanoi_moves, current_move, last_return,
                   refused_moves, not_undone, vars8, vars15, varsW, varsI, varsM, varsJ>>

\* solve, line 147: the outermost _move_tower call
HanoiSolve ==
    /\ program = "hanoi"
    /\ hanoi_pc = "idle"
    /\ hanoi_calls' = <<MoveTowerCall(num_disks, 0, 2, 1)>>
    /\ hanoi_pc' = "solve"
    /\ UNCHANGED <<program, num_disks, towers, hanoi_moves, current_move, last_return,
                   refused_moves, not_undone, vars8, vars15, varsW, varsI, varsM, varsJ>>

\* one step of the innermost _move_tower call; the return of the outermost
\* one is the return of solve (line 148)
MoveTowerStep ==
    /\ program = "hanoi"
    /\ hanoi_pc = "solve"
    /\ LET call == hanoi_calls[Len(hanoi_calls)]
           popped == SubSeq(hanoi_calls, 1, Len(hanoi_calls) - 1)
           goes(at) == Append(popped, [call EXCEPT !.at = at])
       IN  IF call.at = "first" /\ call.height >= 1
           THEN /\ hanoi_calls' = Append(goes("move"),
                     MoveTowerCall(call.height - 1, call.source, call.auxiliary,
                                   call.target))
                /\ UNCHANGED <<towers, hanoi_moves, current_move, last_return,
                               refused_moves, not_undone, hanoi_pc>>
           ELSE IF call.at = "move"
           THEN LET r == make_move(towers, hanoi_moves, current_move,
                                   call.source, call.target)
                IN  /\ HanoiAfter(r, TRUE)
                    /\ refused_moves' = refused_moves + (IF r.ret = "False" THEN 1 ELSE 0)
                    /\ IF r.ret \in {"True", "False"}
                       THEN /\ hanoi_calls' = Append(goes("end"),
                                 MoveTowerCall(call.height - 1, call.auxiliary,
                                               call.target, call.source))
                            /\ UNCHANGED hanoi_pc
                       ELSE /\ hanoi_pc' = "raised"
                            /\ UNCHANGED hanoi_calls
           ELSE /\ hanoi_calls' = popped
                /\ hanoi_pc' = IF popped = <<>> THEN "returned" ELSE "solve"
                /\ UNCHANGED <<towers, hanoi_moves, current_move, last_return,
                               refused_moves, not_undone>>
    /\ UNCHANGED <<program, num_disks, vars8, vars15, varsW, varsI, varsM, varsJ>>

NextHanoi == HanoiSolve \/ MoveTowerStep

SpecHanoi == InitHanoi /\ [][NextHanoi]_vars

----------------------------------------------------------------------------
(* src/Towerofhannoi.py : HanoiState, make_move and undo_move called freely *)

\* state = HanoiState(num_disks)
InitHanoiMoves ==
    /\ program = "hanoi moves"
    /\ num_disks \in 1..MaxDisks
    /\ towers = initial_towers(num_disks)
    /\ hanoi_moves = <<>>
    /\ current_move = -1
    /\ hanoi_calls = <<>>
    /\ hanoi_pc = "idle"
    /\ last_return = "none"
    /\ refused_moves = 0
    /\ not_undone = <<>>
    /\ Idle8 /\ Idle15 /\ IdleW /\ IdleI /\ IdleM /\ IdleJ

\* state.make_move(from_tower, to_tower); an exception ends the script
MakeMove ==
    /\ program = "hanoi moves"
    /\ last_return \notin {"TypeError", "AttributeError"}
    /\ Len(hanoi_moves) < MaxHanoiMoves
    /\ \E from_tower \in (-1)..3, to_tower \in (-1)..3 :
          HanoiAfter(make_move(towers, hanoi_moves, current_move,
                               from_tower, to_tower), TRUE)
    /\ UNCHANGED <<program, num_disks, hanoi_calls, hanoi_pc, refused_moves,
                   vars8, vars15, varsW, varsI, varsM, varsJ>>

\* state.undo_move()
UndoMove ==
    /\ program = "hanoi moves"
    /\ last_return \notin {"TypeError", "AttributeError"}
    /\ HanoiAfter(undo_move(towers, hanoi_moves, current_move), FALSE)
    /\ UNCHANGED <<program, num_disks, hanoi_calls, hanoi_pc, refused_moves,
                   vars8, vars15, varsW, varsI, varsM, varsJ>>

NextHanoiMoves == MakeMove \/ UndoMove

SpecHanoiMoves == InitHanoiMoves /\ [][NextHanoiMoves]_vars

----------------------------------------------------------------------------
(* src/Missonariesandcannibals.py : State, MissionariesCannibalsGame *)

\* State.__init__ with the right-bank counts left to their defaults
State(missionaries_left, cannibals_left, boat_position) ==
    [missionaries_left |-> missionaries_left,
     cannibals_left |-> cannibals_left,
     boat_position |-> boat_position,
     missionaries_right |-> total_missionaries - missionaries_left,
     cannibals_right |-> total_cannibals - cannibals_left]

\* is_valid without the test of the right bank
is_valid_leftonly(st) ==
    IF st.missionaries_left < 0 \/ st.cannibals_left < 0
       \/ st.missionaries_right < 0 \/ st.cannibals_right < 0
    THEN FALSE
    ELSE ~(st.missionaries_left > 0 /\ st.missionaries_left < st.cannibals_left)

\* State.is_valid
is_valid(st) ==
    IF st.missionaries_left < 0 \/ st.cannibals_left < 0
       \/ st.missionaries_right < 0 \/ st.cannibals_right < 0
    THEN FALSE
    ELSE IF \/ st.missionaries_left > 0 /\ st.missionaries_left < st.cannibals_left
            \/ st.missionaries_right > 0 /\ st.missionaries_right < st.cannibals_right
    THEN FALSE
    ELSE TRUE

\* State.is_goal
is_goal_mc(st) ==
    /\ st.missionaries_left = 0 /\ st.cannibals_left = 0
    /\ st.missionaries_right = total_missionaries
    /\ st.cannibals_right = total_cannibals
    /\ st.boat_position = "right"

\* State.__eq__ / __hash__: what the visited set tells states apart by
state_key(st) == <<st.missionaries_left, st.cannibals_left, st.boat_position>>

\* generate_possible_moves: (m, c) with 1 <= m + c <= boat_capacity, m outer
generate_possible_moves ==
    LET all == [k \in 1..((boat_capacity + 1) * (boat_capacity + 1)) |->
                   <<(k - 1) \div (boat_capacity + 1), (k - 1) % (boat_capacity + 1)>>]
    IN  SelectSeq(all, LAMBDA mv : 1 <= mv[1] + mv[2] /\ mv[1] + mv[2] <= boat_capacity)

\* get_next_states
get_next_states(current_state) ==
    LET new_boat_position == IF current_state.boat_position = "left"
                             THEN "right" ELSE "left"
        new_state(mv) ==
            IF current_state.boat_position = "left"
            THEN State(current_state.missionaries_left - mv[1],
                       current_state.cannibals_left - mv[2], new_boat_position)
            ELSE State(current_state.missionaries_left + mv[1],
                       current_state.cannibals_left + mv[2], new_boat_position)
        kept == SelectSeq(generate_possible_moves, LAMBDA mv : is_valid(new_state(mv)))
    IN  [k \in 1..Len(kept) |-> new_state(kept[k])]

\* solve, lines 128-137: the for loop over the next states of the path just
\* taken from the queue, up to the return of line 135 if it is reached
RECURSIVE for_next_states(_, _, _, _)
for_next_states(path, next_states, queue, visited) ==
    IF next_states = <<>> THEN [queue |-> queue, visited |-> visited, found |-> <<>>]
    ELSE LET next_state == Head(next_states)
             new_path == Append(path, next_state)
         IN  IF state_key(next_state) \in visited
             THEN for_next_states(path, Tail(next_states), queue, visited)
             ELSE IF is_goal_mc(next_state)
             THEN [queue |-> queue, visited |-> visited \cup {state_key(next_state)},
                   found |-> <<new_path>>]
             ELSE for_next_states(path, Tail(next_states), Append(queue, new_path),
                                  visited \cup {state_key(next_state)})

\* the value solve returns: None, or a path
NoneResultMC == [none |-> TRUE, path |-> <<>>]
PathResultMC(path) == [none |-> FALSE, path |-> path]

\* game = MissionariesCannibalsGame(missionaries, cannibals, boat_capacity),
\* the three numbers as get_valid_input returns them (1 or more)
InitMC ==
    /\ program = "missionaries"
    /\ total_missionaries \in 1..MaxPeople
    /\ total_cannibals \in 1..MaxPeople
    /\ boat_capacity \in 1..MaxBoat
    /\ mc_queue = <<>>
    /\ mc_visited = {}
    /\ mc_pc = "idle"
    /\ mc_result = <<>>
    /\ Idle8 /\ Idle15 /\ IdleW /\ IdleI /\ IdleH /\ IdleJ

\* solve, lines 117-122
SolveMC ==
    /\ program = "missionaries"
    /\ mc_pc = "idle"
    /\ LET start_state == State(total_missionaries, total_cannibals, "left")
       IN  IF is_goal_mc(start_state)
           THEN /\ mc_result' = <<PathResultMC(<<start_state>>)>>
                /\ mc_pc' = "returned"
                /\ UNCHANGED <<mc_queue, mc_visited>>
           ELSE /\ mc_queue' = << <<start_state>> >>
                /\ mc_visited' = {state_key(start_state)}
                /\ mc_pc' = "loop"
                /\ UNCHANGED mc_result
    /\ UNCHANGED <<program, total_missionaries, total_cannibals, boat_capacity,
                   vars8, vars15, varsW, varsI, varsH, varsJ>>

\* solve, lines 124-139: the test of while queue and one pass of its body
SolveMCStep ==
    /\ program = "missionaries"
    /\ mc_pc = "loop"
    /\ IF mc_queue = <<>>
       THEN /\ mc_result' = <<NoneResultMC>>
            /\ mc_pc' = "returned"
            /\ UNCHANGED <<mc_queue, mc_visited>>
       ELSE LET path == Head(mc_queue)
                current_state == path[Len(path)]
                r == for_next_states(path, get_next_states(current_state),
                                     Tail(mc_queue), mc_visited)
            IN  /\ mc_queue' = r.queue
                /\ mc_visited' = r.visited
                /\ IF r.found # <<>>
                   THEN /\ mc_result' = <<PathResultMC(r.found[1])>>
                        /\ mc_pc' = "returned"
                   ELSE UNCHANGED <<mc_result, mc_pc>>
    /\ UNCHANGED <<program, total_missionaries, total_cannibals, boat_capacity,
                   vars8, vars15, varsW, varsI, varsH, varsJ>>

NextMC == SolveMC \/ SolveMCStep

SpecMC == InitMC /\ [][NextMC]_vars

----------------------------------------------------------------------------
(* src/WaterJugSolver.py : WaterJugSolver *)

min(a, b) == IF a <= b THEN a ELSE b

\* get_next_states: the six candidates in the order they are appended,
\* then those not in self.visited
get_next_states_jug(state, visited) ==
    LET jug1 == state[1]
        jug2 == state[2]
        pour12 == min(jug1, jug2_capacity - jug2)
        pour21 == min(jug2, jug1_capacity - jug1)
        next_states == << <<jug1_capacity, jug2>>,
                          <<jug1, jug2_capacity>>,
                          <<0, jug2>>,
                          <<jug1, 0>>,
                          <<jug1 - pour12, jug2 + pour12>>,
                          <<jug1 + pour21, jug2 - pour21>> >>
    IN  SelectSeq(next_states, LAMBDA st : st \notin visited)

\* the loop of lines 51-53 / 71-73: every next state is added to visited
\* and appended, with its path, to the queue or stack
RECURSIVE add_next_states(_, _, _, _)
add_next_states(next_states, path, pending, visited) ==
    IF next_states = <<>> THEN [pending |-> pending, visited |-> visited]
    ELSE add_next_states(Tail(next_states), path,
                         Append(pending, <<Head(next_states),
                                           Append(path, Head(next_states))>>),
                         visited \cup {Head(next_states)})

\* the value a solve method returns: None, or a path
NoneResultJug == [none |-> TRUE, path |-> <<>>]
PathResultJug(path) == [none |-> FALSE, path |-> path]

\* solver = WaterJugSolver(jug1_capacity, jug2_capacity, jug_target)
InitJug ==
    /\ program = "water jug"
    /\ jug1_capacity \in 1..MaxJug
    /\ jug2_capacity \in 1..MaxJug
    /\ jug_target \in 0..MaxTarget
    /\ jug_visited = {}
    /\ jug_pending = <<>>
    /\ jug_pc = "idle"
    /\ bfs_path = <<>>
    /\ dfs_path = <<>>
    /\ Idle8 /\ Idle15 /\ IdleW /\ IdleI /\ IdleH /\ IdleM

\* solve_bfs, lines 39-42
SolveBfs ==
    /\ program = "water jug"
    /\ jug_pc = "idle"
    /\ jug_visited' = {<<0, 0>>}
    /\ jug_pending' = << << <<0, 0>>, << <<0, 0>> >> >> >>
    /\ jug_pc' = "bfs"
    /\ UNCHANGED <<program, jug1_capacity, jug2_capacity, jug_target, bfs_path, dfs_path,
                   vars8, vars15, varsW, varsI, varsH, varsM>>

\* solve_bfs taking the newest pair of the queue instead of the oldest
BfsStep_newest ==
    /\ program = "water jug"
    /\ jug_pc = "bfs"
    /\ IF jug_pending = <<>>
       THEN /\ bfs_path' = <<NoneResultJug>>
            /\ jug_pc' = "between"
            /\ UNCHANGED <<jug_pending, jug_visited>>
       ELSE LET top == jug_pending[Len(jug_pending)]
                rest == SubSeq(jug_pending, 1, Len(jug_pending) - 1)
            IN  IF top[1][1] = jug_target \/ top[1][2] = jug_target
                THEN /\ bfs_path' = <<PathResultJug(top[2])>>
                     /\ jug_pc' = "between"
                     /\ jug_pending' = rest
                     /\ UNCHANGED jug_visited
                ELSE LET r == add_next_states(
                                  get_next_states_jug(top[1], jug_visited),
                                  top[2], rest, jug_visited)
                     IN  /\ jug_pending' = r.pending
                         /\ jug_visited' = r.visited
                         /\ UNCHANGED <<bfs_path, jug_pc>>
    /\ UNCHANGED <<program, jug1_capacity, jug2_capacity, jug_target, dfs_path,
                   vars8, vars15, varsW, varsI, varsH, varsM>>

\* solve_bfs, lines 44-55: the test of while queue and one pass of its body
BfsStep ==
    /\ program = "water jug"
    /\ jug_pc = "bfs"
    /\ IF jug_pending = <<>>
       THEN /\ bfs_path' = <<NoneResultJug>>
            /\ jug_pc' = "between"
            /\ UNCHANGED <<jug_pending, jug_visited>>
       ELSE LET current_state == Head(jug_pending)[1]
                path == Head(jug_pending)[2]
            IN  IF current_state[1] = jug_target \/ current_state[2] = jug_target
                THEN /\ bfs_path' = <<PathResultJug(path)>>
                     /\ jug_pc' = "between"
                     /\ jug_pending' = Tail(jug_pending)
                     /\ UNCHANGED jug_visited
                ELSE LET r == add_next_states(
                                  get_next_states_jug(current_state, jug_visited),
                                  path, Tail(jug_pending), jug_visited)
                     IN  /\ jug_pending' = r.pending
                         /\ jug_visited' = r.visited
                         /\ UNCHANGED <<bfs_path, jug_pc>>
    /\ UNCHANGED <<program, jug1_capacity, jug2_capacity, jug_target, dfs_path,
                   vars8, vars15, varsW, varsI, varsH, varsM>>

\* solve_dfs, lines 59-62
SolveDfs ==
    /\ program = "water jug"
    /\ jug_pc = "between"
    /\ jug_visited' = {<<0, 0>>}
    /\ jug_pending' = << << <<0, 0>>, << <<0, 0>> >> >> >>
    /\ jug_pc' = "dfs"
    /\ UNCHANGED <<program, jug1_capacity, jug2_capacity, jug_target, bfs_path, dfs_path,
                   vars8, vars15, varsW, varsI, varsH, varsM>>

\* solve_dfs, lines 64-75: the test of while stack and one pass of its body
DfsStep ==
    /\ program = "water jug"
    /\ jug_pc = "dfs"
    /\ IF jug_pending = <<>>
       THEN /\ dfs_path' = <<NoneResultJug>>
            /\ jug_pc' = "done"
            /\ UNCHANGED <<jug_pending, jug_visited>>
       ELSE LET top == jug_pending[Len(jug_pending)]
                rest == SubSeq(jug_pending, 1, Len(jug_pending) - 1)
                current_state == top[1]
                path == top[2]
            IN  IF current_state[1] = jug_target \/ current_state[2] = jug_target
                THEN /\ dfs_path' = <<PathResultJug(path)>>
                     /\ jug_pc' = "done"
                     /\ jug_pending' = rest
                     /\ UNCHANGED jug_visited
                ELSE LET r == add_next_states(
                                  get_next_states_jug(current_state, jug_visited),
                                  path, rest, jug_visited)
                     IN  /\ jug_pending' = r.pending
                         /\ jug_visited' = r.visited
                         /\ UNCHANGED <<dfs_path, jug_pc>>
    /\ UNCHANGED <<program, jug1_capacity, jug2_capacity, jug_target, bfs_path,
                   vars8, vars15, varsW, varsI, varsH, varsM>>

NextJug == SolveBfs \/ BfsStep \/ SolveDfs \/ DfsStep

\* the two solve calls run to their return: neither loop waits on anything
SpecJug == InitJug /\ [][NextJug]_vars /\ WF_vars(NextJug)

----------------------------------------------------------------------------
(* Reference definitions used by the properties *)

\* the 3x3 blank displacement of each label: UP row-1, DOWN row+1, LEFT col-1,
\* RIGHT col+1
BlankStep8(move) ==
    IF move = "UP" THEN <<-1, 0>>
    ELSE IF move = "DOWN" THEN <<1, 0>>
    ELSE IF move = "LEFT" THEN <<0, -1>>
    ELSE <<0, 1>>

\* the board after the blank made the moves in order; ok is FALSE as soon as
\* a move takes the blank off the 3x3 grid
RECURSIVE ApplyMoves8(_, _)
ApplyMoves8(board, moves) ==
    IF moves = <<>> THEN [ok |-> TRUE, board |-> board]
    ELSE LET pos == get_blank_pos(board)
             d == BlankStep8(Head(moves))
             nx == pos[1] + d[1]
             ny == pos[2] + d[2]
         IN  IF nx \in 0..2 /\ ny \in 0..2
             THEN ApplyMoves8(swap8(board, pos[1], pos[2], nx, ny), Tail(moves))
             ELSE [ok |-> FALSE, board |-> board]

EXAMPLE1 == << <<1, 2, 3>>, <<4, 0, 6>>, <<7, 5, 8>> >>
REVERSED8 == << <<8, 7, 6>>, <<5, 4, 3>>, <<2, 1, 0>> >>

----------------------------------------------------------------------------
(* Properties *)

\* C1: for every 3x3 board that passes is_solvable, the first solve() of a
\* fresh PuzzleSolver returns a result whose solution_depth is the length of a
\* shortest sequence of legal moves from the board to the goal (by
\* breadth-first search); the board of Example 1 is solved in exactly 2 moves.
C1_AStarShortest ==
    (program = "puzzle8" /\ results8 # <<>> /\ is_solvable8(initial_state.board)) =>
        /\ ~results8[1].none
        /\ results8[1].solution_depth = TrueDist8(initial_state.board)
        /\ initial_state.board = EXAMPLE1 => results8[1].solution_depth = 2

C1_Witness ==
    /\ program = "puzzle8"
    /\ results8 # <<>>
    /\ ~results8[1].none
    /\ results8[1].solution_depth = MaxDist8
    /\ TrueDist8(initial_state.board) = MaxDist8

\* C2: for every 4x4 board that passes is_solvable and whose shortest distance
\* to the goal is at most the depth cap max_depth, solve returns a move list
\* whose length is that shortest distance.
C2_IDSShortestWithinCap ==
    (/\ program = "puzzle15"
     /\ results15 # <<>>
     /\ is_solvable15(initial15)
     /\ initial15 \in GoalBalls15[MaxDist15 + 1]
     /\ TrueDist15(initial15) <= max_depth) =>
        /\ ~results15[1].none
        /\ Len(results15[1].moves) = TrueDist15(initial15)

\* (with C2) whenever solve does return a move list, its length is the
\* shortest distance: the first depth bound that succeeds is minimal
IDSShortestWhenFound ==
    (program = "puzzle15" /\ results15 # <<>> /\ ~results15[1].none) =>
        Len(results15[1].moves) = TrueDist15(initial15)

\* (with C2) solve returns a move list exactly for the parity-passing boards
\* whose shortest distance is below max_depth
IDSFoundBelowCap ==
    (program = "puzzle15" /\ results15 # <<>>
     /\ initial15 \in GoalBalls15[MaxDist15 + 1]) =>
        (~results15[1].none <=> TrueDist15(initial15) < max_depth)

\* C3: on every 3x3 permutation board is_solvable is True exactly when the
\* board is reachable from the goal by legal moves; the walk visits every
\* board reachable from the goal and every board reachable from the goal with
\* tiles 7 and 8 exchanged, which is reported unsolvable.
C3_ParityIsReachability8 ==
    /\ is_solvable8(wboard) <=> worigin = "goal"
    /\ ~is_solvable8(SWAPPED8)

C3_Witness ==
    /\ program = "walk8"
    /\ worigin = "goal"
    /\ wboard = REVERSED8
    /\ is_solvable8(wboard)

\* C4: the 4x4 parity test gives the same answer for a board and for each of
\* its get_neighbors neighbours, answers True for the goal, and hence answers
\* True for every board create_random_board makes.
C4_ParityInvariant15 ==
    /\ is_solvable15(GOAL_STATE)
    /\ \A n \in NeighborBoards15(wboard) : is_solvable15(n) = is_solvable15(wboard)
    /\ worigin = "create_random_board" => is_solvable15(wboard)

C4_Witness ==
    /\ program = "walk15"
    /\ worigin = "custom"
    /\ wleft = 0
    /\ ~is_solvable15(wboard)
    /\ get_blank_position(wboard)[1] = 0

\* C5: the moves of the first result of a fresh PuzzleSolver, applied in order
\* to the initial board with UP row-1, DOWN row+1, LEFT col-1, RIGHT col+1,
\* keep the blank on the grid and end at the goal board.
C5_RoundTrip8 ==
    (program = "puzzle8" /\ results8 # <<>> /\ ~results8[1].none) =>
        LET end == ApplyMoves8(initial_state.board, results8[1].moves_at_return)
        IN  end.ok /\ end.board = GOAL8

C5_Witness ==
    /\ program = "puzzle8"
    /\ results8 # <<>>
    /\ ~results8[1].none
    /\ Len(results8[1].moves_at_return) >= 3
    /\ ApplyMoves8(initial_state.board, results8[1].moves_at_return).board = GOAL8

\* C6: the replay loop of main, run on a move list returned by solve, never
\* indexes outside the 4x4 grid and ends at GOAL_STATE; an empty move list is
\* returned only for the goal board; the replay maps each label to the
\* displacement get_neighbors gave it.
C6_RoundTrip15 ==
    /\ replay.stage \notin {"IndexError", "wrapped"}
    /\ replay.stage = "done" => replay.board = GOAL_STATE
    /\ \A k \in 1..Len(results15) :
          (~results15[k].none /\ results15[k].moves = <<>>) => initial15 = GOAL_STATE
    /\ \A k \in 1..Len(MOVES15) :
          replay_target(MOVES15[k][3], 0, 0) = <<MOVES15[k][1], MOVES15[k][2]>>

C6_Witness ==
    /\ program = "puzzle15"
    /\ replay.stage = "done"
    /\ replay.board = GOAL_STATE
    /\ Len(results15[Len(results15)].moves) >= 4

\* C7: every solve() call on one PuzzleSolver returns the same moves and the
\* same solution_depth, solution_depth is the length of moves, and a later
\* call leaves the moves list of an earlier result as it was returned.
C7_Idempotent8 ==
    \A k \in 1..Len(results8) :
        ~results8[k].none =>
            /\ results8[k].moves_at_return = results8[1].moves_at_return
            /\ results8[k].solution_depth = results8[1].solution_depth
            /\ results8[k].solution_depth = Len(results8[k].moves_at_return)
            /\ ResultMoves(results8[k]) = results8[k].moves_at_return

\* C8: every solve(max_depth) call on one IDSSolver returns the same value,
\* a move list or None, and makes the same number of dls calls.
C8_Idempotent15 ==
    \A k \in 1..Len(results15) :
        /\ results15[k] = results15[1]
        /\ calls_log[k] = calls_log[1]

C8_Witness ==
    /\ program = "puzzle15"
    /\ Len(results15) = MaxCalls
    /\ ~results15[MaxCalls].none
    /\ Len(results15[MaxCalls].moves) >= 4
    /\ current_path # {}

\* C9: the value solve returns for a parity-passing board with no solution
\* within max_depth differs from the value it returns for a board that fails
\* the parity test (NoneResult15, line 135).
C9_FailureKindsDiffer ==
    \A k \in 1..Len(results15) :
        is_solvable15(initial15) => results15[k] # NoneResult15

\* C10: on a board that fails the parity test PuzzleSolver.solve returns None
\* without a heappop and with moves_made as it was, and IDSSolver.solve
\* returns None without a dls call and with solution, current_path and
\* visited_states as they were (all empty since construction).
C10_NoSearchWhenUnsolvable ==
    /\ (program = "puzzle8" /\ ~is_solvable8(initial_state.board)) =>
          /\ pc8 = "idle" /\ pops8 = 0 /\ moves_made = <<>>
          /\ open_set = <<>> /\ closed_set = {}
          /\ \A k \in 1..Len(results8) : results8[k].none
    /\ (program = "puzzle15" /\ ~is_solvable15(initial15)) =>
          /\ pc15 = "idle" /\ dls_calls = 0 /\ stack = <<>>
          /\ solution = <<>> /\ current_path = {} /\ visited_states = {}
          /\ \A k \in 1..Len(results15) : results15[k].none

C10_Witness ==
    /\ program = "puzzle8"
    /\ initial_state.board = SWAPPED8
    /\ Len(results8) = MaxCalls
    /\ results8[1].none
    /\ pops8 = 0

\* C11: solve(max_depth) runs dls with the depth bounds 0, 1, ..., max_depth
\* in increasing order (the outermost dls call carries the bound of the
\* loop), and returns None for a parity-passing board only after every bound
\* up to max_depth has failed: a board whose shortest solution has exactly
\* max_depth moves is solved.
C11_BoundsUpToMax ==
    (program = "puzzle15" /\ is_solvable15(initial15)
     /\ initial15 \in GoalBalls15[MaxDist15 + 1]) =>
        /\ (pc15 = "dls" /\ stack # <<>>) =>
              stack[1].depth = depth15 /\ depth15 <= max_depth
        /\ \A k \in 1..Len(results15) :
              results15[k].none => TrueDist15(initial15) > max_depth

\* C12: on every 3x3 board that passes is_solvable, solve never finds the open
\* set empty at the test of while open_set, so it never returns None: every
\* call ends by popping the goal board.
C12_OpenSetNeverEmpties ==
    (program = "puzzle8" /\ is_solvable8(initial_state.board)) =>
        /\ pc8 = "loop" => open_set # <<>>
        /\ \A k \in 1..Len(results8) : ~results8[k].none

C12_Witness ==
    /\ program = "puzzle8"
    /\ is_solvable8(initial_state.board)
    /\ pc8 = "idle"
    /\ Len(results8) = 1
    /\ ~results8[1].none
    /\ pops8 >= 20
    /\ open_set # <<>>

\* C13: manhattan_distance is 0 on the goal board and at least 1 on every
\* other board, differs by exactly 1 between a board and each of its
\* neighbours, and never exceeds the true number of moves to the goal; checked
\* on the initial board and on every board the search holds (the nodes of the
\* open set, the boards of the active dls calls).
HeuristicHolds8(b) ==
    /\ (b = GOAL8) <=> (manhattan_distance8(b) = 0)
    /\ \A n \in NeighborBoards8(b) :
          Abs(manhattan_distance8(b) - manhattan_distance8(n)) = 1
    /\ b \in GoalBalls8[MaxDist8 + 2] => manhattan_distance8(b) <= TrueDist8(b)

HeuristicHolds15(b) ==
    /\ (b = GOAL_STATE) <=> (manhattan_distance15(b) = 0)
    /\ \A n \in NeighborBoards15(b) :
          Abs(manhattan_distance15(b) - manhattan_distance15(n)) = 1
    /\ b \in GoalBalls15[MaxDist15 + 2] => manhattan_distance15(b) <= TrueDist15(b)

C13_ManhattanAdmissibleConsistent ==
    /\ program = "puzzle8" =>
          \A b \in {initial_state.board} \cup {n.board : n \in Range(open_set)} :
              HeuristicHolds8(b)
    /\ program = "puzzle15" =>
          \A b \in {initial15} \cup {f.state : f \in Range(stack)} :
              HeuristicHolds15(b)

\* a search in progress from a board whose estimate is strictly below its
\* true distance, with several nodes waiting in the open set
C13_Witness ==
    /\ program = "puzzle8"
    /\ pc8 = "loop"
    /\ initial_state.board \in GoalBalls8[MaxDist8 + 1]
    /\ TrueDist8(initial_state.board) = MaxDist8
    /\ manhattan_distance8(initial_state.board) < MaxDist8
    /\ Len(open_set) >= 4

\* C14: within one solve run each board is expanded at most once, so the
\* number of expansions performed equals the size of the closed set, which is
\* the nodes_explored that solve reports.
C14_ExpandedAtMostOnce ==
    program = "puzzle8" => expansions8 = Cardinality(closed_set)

\* C15: on the goal board both engines succeed at once with no moves:
\* PuzzleSolver.solve returns moves [] with solution_depth 0 and
\* nodes_explored 0 after a single heappop, and IDSSolver.solve returns the
\* empty list, never None, from the single dls call of depth bound 0.
GoalSolvedAtOnce8 ==
    (program = "puzzle8" /\ initial_state.board = GOAL8) =>
        /\ pops8 <= 1 /\ expansions8 = 0 /\ moves_made = <<>>
        /\ \A k \in 1..Len(results8) :
              /\ ~results8[k].none
              /\ results8[k].moves_at_return = <<>>
              /\ results8[k].solution_depth = 0
              /\ results8[k].nodes_explored = 0

GoalSolvedAtOnce15 ==
    (program = "puzzle15" /\ initial15 = GOAL_STATE) =>
        /\ dls_calls <= 1 /\ depth15 = 0 /\ Len(stack) <= 1
        /\ \A k \in 1..Len(results15) :
              ~results15[k].none /\ results15[k].moves = <<>>

C15_GoalSolvedAtOnce == GoalSolvedAtOnce8 /\ GoalSolvedAtOnce15

\* a board of n rows of n cells holding each of 0..n*n-1 exactly once
IsPermutationBoard(b, n) ==
    /\ Len(b) = n
    /\ \A i \in 1..n : Len(b[i]) = n
    /\ \A v \in 0..(n * n - 1) :
          Cardinality({p \in (1..n) \X (1..n) : b[p[1]][p[2]] = v}) = 1

\* C16: every board main hands to its solver is a permutation of 0..N*N-1:
\* a custom board with a repeated or missing value is rejected at the prompt.
HandedPermutation8 ==
    (program = "input8" /\ handed # <<>>) => IsPermutationBoard(handed[1], 3)

HandedPermutation15 ==
    (program = "input15" /\ handed # <<>>) => IsPermutationBoard(handed[1], 4)

C16_OnlyPermutationsHanded == HandedPermutation8 /\ HandedPermutation15

\* c is b with the blank exchanged with one orthogonally adjacent cell
BlankSwap(b, c, n) ==
    \E p \in {r \in (1..n) \X (1..n) : b[r[1]][r[2]] = 0},
       q \in {r \in (1..n) \X (1..n) : c[r[1]][r[2]] = 0} :
        /\ Abs(p[1] - q[1]) + Abs(p[2] - q[2]) = 1
        /\ c[p[1]][p[2]] = b[q[1]][q[2]]
        /\ \A r \in (1..n) \X (1..n) :
              r \notin {p, q} => c[r[1]][r[2]] = b[r[1]][r[2]]

\* 2 neighbours at a corner, 3 on an edge, 4 in the interior
InBoundsDirections(pos, n) ==
    4 - (IF pos[1] \in {0, n - 1} THEN 1 ELSE 0)
      - (IF pos[2] \in {0, n - 1} THEN 1 ELSE 0)

\* the entries of seq appear in the order of table, none twice
InTableOrder(seq, table) ==
    seq = SelectSeq(table, LAMBDA m : m \in Range(seq))

NeighborsWellFormed8(node) ==
    LET nbrs == get_neighbors8(node)
    IN  /\ IsPermutationBoard(node.board, 3)
        /\ Len(nbrs) = InBoundsDirections(get_blank_pos(node.board), 3)
        /\ InTableOrder([k \in 1..Len(nbrs) |-> nbrs[k].move],
                        <<"UP", "DOWN", "LEFT", "RIGHT">>)
        /\ \A k \in 1..Len(nbrs) :
              /\ IsPermutationBoard(nbrs[k].board, 3)
              /\ BlankSwap(node.board, nbrs[k].board, 3)
        /\ node.parent # NoParent => BlankSwap(node.parent[1].board, node.board, 3)

NeighborsWellFormed15(b) ==
    LET nbrs == get_neighbors15(b)
    IN  /\ IsPermutationBoard(b, 4)
        /\ Len(nbrs) = InBoundsDirections(get_blank_position(b), 4)
        /\ InTableOrder([k \in 1..Len(nbrs) |-> nbrs[k][2]],
                        <<"LEFT", "RIGHT", "UP", "DOWN">>)
        /\ \A k \in 1..Len(nbrs) :
              /\ IsPermutationBoard(nbrs[k][1], 4)
              /\ BlankSwap(b, nbrs[k][1], 4)

\* C17: every board of a search is a permutation of 0..N*N-1 and differs from
\* its parent by the exchange of the blank with one orthogonally adjacent
\* cell; get_neighbors returns one neighbour per in-bounds direction (2, 3 or
\* 4 of them) in the order of its moves table.  Checked on the initial board,
\* the nodes of the open set and the closed boards (8-puzzle) and on the
\* boards of the active dls calls, each the child of the one above (15-puzzle).
C17_PermutationBoards ==
    /\ program = "puzzle8" =>
          /\ \A node \in {initial_state} \cup Range(open_set) :
                NeighborsWellFormed8(node)
          /\ \A b \in closed_set : IsPermutationBoard(b, 3)
    /\ program = "puzzle15" =>
          /\ NeighborsWellFormed15(initial15)
          /\ \A k \in 1..Len(stack) :
                /\ NeighborsWellFormed15(stack[k].state)
                /\ k > 1 => BlankSwap(stack[k - 1].state, stack[k].state, 4)

\* a search holding a node three or more moves deep whose blank is in the
\* centre of the board (four neighbours)
C17_Witness ==
    /\ program = "puzzle8"
    /\ pc8 = "loop"
    /\ Cardinality(closed_set) >= 5
    /\ \E k \in 1..Len(open_set) :
          /\ open_set[k].depth >= 3
          /\ get_blank_pos(open_set[k].board) = <<1, 1>>
          /\ Len(get_neighbors8(open_set[k])) = 4

\* the (row, col) displacement a compass label names
Compass(label) ==
    CASE label = "UP" -> <<-1, 0>>
      [] label = "DOWN" -> <<1, 0>>
      [] label = "LEFT" -> <<0, -1>>
      [] label = "RIGHT" -> <<0, 1>>

\* C18: in the 8-puzzle a label is the direction the blank moves (UP takes
\* the blank to row-1, LEFT to col-1); in the 15-puzzle it is the direction
\* the exchanged tile moves, so the blank goes the opposite way (UP takes the
\* blank to row+1, LEFT to col+1).  Checked on every neighbour of the boards
\* the searches hold.
C18_OppositeLabels ==
    /\ program = "puzzle8" =>
          \A node \in {initial_state} \cup Range(open_set) :
              \A n \in Range(get_neighbors8(node)) :
                  LET from == get_blank_pos(node.board)
                      to == get_blank_pos(n.board)
                  IN  <<to[1] - from[1], to[2] - from[2]>> = Compass(n.move)
    /\ program = "puzzle15" =>
          \A b \in {initial15} \cup {f.state : f \in Range(stack)} :
              \A n \in Range(get_neighbors15(b)) :
                  LET from == get_blank_position(b)
                      to == get_blank_position(n[1])
                  IN  <<from[1] - to[1], from[2] - to[2]>> = Compass(n[2])

\* a dls call entered by the move labelled UP, its blank one row further down
\* than its caller's
C18_Witness ==
    /\ program = "puzzle15"
    /\ Len(stack) >= 2
    /\ Top.path # <<>>
    /\ Top.path[Len(Top.path)] = "UP"
    /\ get_blank_position(Top.state)[1]
          = get_blank_position(stack[Len(stack) - 1].state)[1] + 1

\* C19: no step mutates a board.  The initial board handed to either solver
\* keeps its values through every step of solve (the root node shares the
\* caller's list in the 8-puzzle), get_neighbors leaves the board of every
\* node waiting to be expanded as it was, and the board of every active dls
\* call stays the same while the call is active.
C19_BoardsNotMutated ==
    [][/\ initial_state'.board = initial_state.board
       /\ initial15' = initial15
       /\ program = "puzzle8" =>
             \A node \in Range(open_set) :
                 board_after_get_neighbors8(node) = node.board
       /\ program = "puzzle15" =>
             \A k \in 1..Len(stack) :
                 k <= Len(stack') /\ pc15' = "dls" /\ pc15 = "dls"
                     => stack'[k].state = stack[k].state]_vars

\* a finished solve that expanded the root and other nodes, the solver's
\* initial board still an input board
C19_Witness ==
    /\ program = "puzzle8"
    /\ pc8 = "idle"
    /\ Len(results8) = 1
    /\ ~results8[1].none
    /\ expansions8 >= 10
    /\ initial_state.board \in Boards8
    /\ get_blank_pos(initial_state.board) = <<1, 1>>

\* the boards of the active dls calls that have marked themselves
MarkedAbove(stk) ==
    {hash15(stk[k].state) : k \in {m \in 1..Len(stk) : stk[m].stage = "loop"}}

\* a dls call about to run its entry tests
AtEntry == pc15 = "dls" /\ rv = "none" /\ stack # <<>> /\ Top.stage = "enter"

\* C20: at every entry to dls current_path holds exactly the boards of the
\* active calls above it; a call that returns False leaves current_path as it
\* found it; and a board is refused by the test state_hash in current_path
\* only if an active call above it has that board.
C20_MarkOnEnterUnmarkOnExit ==
    [][/\ AtEntry =>
             /\ current_path = MarkedAbove(Pop)
             /\ current_path = Top.entry_path
             /\ \A k \in 1..(Len(stack) - 1) : stack[k].stage = "loop"
       /\ (pc15 = "dls" /\ rv = "none" /\ rv' = "False") =>
             current_path' = Top.entry_path
       /\ (AtEntry /\ rv' = "False" /\ Top.depth >= 0 /\ Top.state # GOAL_STATE
            /\ manhattan_distance15(Top.state) <= Top.depth) =>
             \E k \in 1..(Len(stack) - 1) : stack[k].state = Top.state]_vars

\* a call has just been refused as a cycle: the neighbour its caller tried is
\* marked in current_path, and passed the depth, goal and distance tests
C20_Witness ==
    /\ program = "puzzle15"
    /\ pc15 = "dls"
    /\ rv = "False"
    /\ stack # <<>>
    /\ Top.stage = "loop"
    /\ Top.idx <= Len(get_neighbors15(Top.state))
    /\ LET refused == get_neighbors15(Top.state)[Top.idx][1]
       IN  /\ hash15(refused) \in current_path
           /\ refused # GOAL_STATE
           /\ Top.depth - 1 >= 0
           /\ manhattan_distance15(refused) <= Top.depth - 1

\* C21: main prints "No solution found within the maximum depth!" only when
\* solve returned None: every list solve returns, the empty list for a board
\* that is already the goal included, is reported as a solution.
C21_NoSolutionOnlyForNone ==
    (program = "puzzle15" /\ replay.stage = "no solution") =>
        results15[Len(results15)].none

\* C22: dls is never entered with depth < 0: every active call has a depth
\* of 0 or more, which with the length of its path makes up the depth bound
\* of the iteration, and a path dls returns is no longer than that bound.
C22_DepthNeverNegative ==
    (program = "puzzle15" /\ pc15 = "dls") =>
        /\ \A k \in 1..Len(stack) :
              /\ stack[k].depth >= 0
              /\ stack[k].depth + Len(stack[k].path) = depth15
        /\ rv = "True" => Len(solution) <= depth15

\* a call entered at depth 0 on a board that is not the goal, three or more
\* calls deep: the Manhattan test is about to prune it
C22_Witness ==
    /\ program = "puzzle15"
    /\ pc15 = "dls"
    /\ rv = "none"
    /\ Len(stack) >= 3
    /\ Top.stage = "enter"
    /\ Top.depth = 0
    /\ Top.state # GOAL_STATE
    /\ manhattan_distance15(Top.state) >= 1

\* some sequence of fewer than d legal moves leads from board a to board b:
\* the boards within (d-1) \div 2 moves of one meet those within the
\* remaining moves of the other (moves are reversible)
CloserThan(a, b, d) ==
    /\ d >= 1
    /\ LET half == (d - 1) \div 2
           rest == (d - 1) - half
       IN  Balls8({a}, half)[half + 1] \cap Balls8({b}, rest)[rest + 1] # {}

\* the fields of a node as PuzzleState.__init__ and get_neighbors set them
NodeWellFormed8(node) ==
    /\ node.cost = node.depth + manhattan_distance8(node.board)
    /\ IF node.parent = NoParent THEN node.depth = 0
       ELSE node.depth = node.parent[1].depth + 1

\* C23: every node has depth = parent.depth + 1 (0 at the root) and
\* cost = depth + manhattan_distance; the costs of the nodes popped one after
\* the other never decrease; and a board popped for the first time is popped
\* at a depth equal to its shortest distance from the initial board.
C23_PoppedCostsNonDecreasing ==
    [][(program = "puzzle8" /\ pc8 = "loop" /\ open_set # <<>>) =>
          LET current_state == heappop(open_set)[1]
          IN  /\ \A node \in Range(open_set) : NodeWellFormed8(node)
              /\ (pc8' = "loop" /\ open_set' # <<>>) =>
                    current_state.cost <= heappop(open_set')[1].cost
              /\ current_state.board \notin closed_set =>
                    ~CloserThan(initial_state.board, current_state.board,
                                current_state.depth)]_vars

\* a search that has popped a dozen nodes and holds nodes of several costs
C23_Witness ==
    /\ program = "puzzle8"
    /\ pc8 = "loop"
    /\ pops8 >= 12
    /\ \E j, k \in 1..Len(open_set) : open_set[j].cost + 2 <= open_set[k].cost
    /\ \E k \in 1..Len(open_set) : open_set[k].depth >= 5

\* C24: a rejected row leaves used_numbers and the accepted rows as they
\* were: at every moment of get_user_input the used numbers are exactly the
\* numbers of the rows accepted so far, so any row of three numbers not yet
\* accepted can still be entered.
C24_RejectedRowLeavesNoTrace ==
    program = "input8" =>
        used_numbers = UNION {Range(input_board[i]) : i \in 1..Len(input_board)}

\* 2 to the power n
RECURSIVE Pow2(_)
Pow2(n) == IF n = 0 THEN 1 ELSE 2 * Pow2(n - 1)

\* C25: solve on a fresh solver of n disks never has a make_move refused and
\* raises nothing; when it returns it has made exactly 2^n - 1 moves, towers A
\* and B are empty and tower C holds the n disks, largest at the bottom.
C25_HanoiSolved ==
    program = "hanoi" =>
        /\ refused_moves = 0
        /\ hanoi_pc # "raised"
        /\ last_return \in {"none", "True"}
        /\ hanoi_pc = "returned" =>
              /\ Len(hanoi_moves) = Pow2(num_disks) - 1
              /\ current_move = Len(hanoi_moves) - 1
              /\ is_solved
              /\ towers = << <<>>, <<>>, [k \in 1..num_disks |-> num_disks - k + 1] >>

C25_Witness ==
    /\ program = "hanoi"
    /\ hanoi_pc = "returned"
    /\ num_disks = MaxDisks
    /\ Len(hanoi_moves) = Pow2(MaxDisks) - 1
    /\ is_solved

\* every tower holds disks only, strictly smaller from bottom to top, and
\* each of the n disks is on exactly one tower
TowersWellFormed ==
    /\ \A t \in 1..3 : \A k \in 1..Len(towers[t]) :
          /\ towers[t][k] \in 1..num_disks
          /\ k > 1 => towers[t][k] < towers[t][k - 1]
    /\ \A d \in 1..num_disks :
          Cardinality({p \in {q \in (1..3) \X (1..num_disks) : q[2] <= Len(towers[q[1]])} :
                          towers[p[1]][p[2]] = d}) = 1

\* C26: after any sequence of make_move and undo_move calls the towers are
\* well formed (strictly decreasing sizes, every disk on exactly one tower,
\* nothing but disks stored), and an undo_move that succeeds (current_move
\* goes down by one) puts the towers back as they were before the most recent
\* move not yet undone.
C26_TowersKeptWellFormed ==
    [][program = "hanoi moves" =>
          /\ TowersWellFormed'
          /\ current_move' = current_move - 1 =>
                /\ not_undone # <<>>
                /\ towers' = not_undone[Len(not_undone)]]_vars

\* a state of a returned path obeys the rules of the game
ObeysRules(st) ==
    /\ st.missionaries_left >= 0 /\ st.cannibals_left >= 0
    /\ st.missionaries_right >= 0 /\ st.cannibals_right >= 0
    /\ st.missionaries_left + st.missionaries_right = total_missionaries
    /\ st.cannibals_left + st.cannibals_right = total_cannibals
    /\ ~(st.missionaries_left > 0 /\ st.missionaries_left < st.cannibals_left)
    /\ ~(st.missionaries_right > 0 /\ st.missionaries_right < st.cannibals_right)

\* C27: every state of a path solve returns, the first included, obeys the
\* rules; the boat changes bank at every step and carries 1 to boat_capacity
\* people from the bank it leaves; the last state has everyone on the right.
C27_ReturnedPathObeysRules ==
    (program = "missionaries" /\ mc_result # <<>> /\ ~mc_result[1].none) =>
        LET path == mc_result[1].path
        IN  /\ \A k \in 1..Len(path) : ObeysRules(path[k])
            /\ \A k \in 1..(Len(path) - 1) :
                  LET m == path[k].missionaries_left - path[k + 1].missionaries_left
                      c == path[k].cannibals_left - path[k + 1].cannibals_left
                      sign == IF path[k].boat_position = "left" THEN 1 ELSE -1
                  IN  /\ path[k].boat_position # path[k + 1].boat_position
                      /\ sign * m >= 0 /\ sign * c >= 0
                      /\ 1 <= sign * (m + c) /\ sign * (m + c) <= boat_capacity
            /\ path[1] = State(total_missionaries, total_cannibals, "left")
            /\ is_goal_mc(path[Len(path)])

\* a path with a trip back to the left bank was returned
C27_Witness ==
    /\ program = "missionaries"
    /\ mc_result # <<>> /\ ~mc_result[1].none
    /\ Len(mc_result[1].path) >= 4
    /\ mc_result[1].path[3].boat_position = "left"
    /\ total_cannibals = total_missionaries

\* the amounts the two jugs can hold
JugStates == (0..jug1_capacity) \X (0..jug2_capacity)

\* one fill, one emptying, or one pour that stops when the jug poured from is
\* empty or the jug poured into is full, and loses no water
LegalJugStep(a, b) ==
    \/ b = <<jug1_capacity, a[2]>>
    \/ b = <<a[1], jug2_capacity>>
    \/ b = <<0, a[2]>>
    \/ b = <<a[1], 0>>
    \/ /\ b[1] + b[2] = a[1] + a[2]
       /\ b[1] <= a[1]
       /\ b[1] = 0 \/ b[2] = jug2_capacity
    \/ /\ b[1] + b[2] = a[1] + a[2]
       /\ b[2] <= a[2]
       /\ b[2] = 0 \/ b[1] = jug1_capacity

HoldsTarget(st) == st[1] = jug_target \/ st[2] = jug_target

\* the least number of legal steps from the amounts of seen, themselves k steps
\* or fewer from two empty jugs, to amounts that hold the target: {} if there
\* is no such path, the one-element set of the number otherwise
RECURSIVE ShortestJugSteps(_, _)
ShortestJugSteps(seen, k) ==
    IF \E st \in seen : HoldsTarget(st) THEN {k}
    ELSE LET more == seen \cup {b \in JugStates : \E a \in seen : LegalJugStep(a, b)}
         IN  IF more = seen THEN {} ELSE ShortestJugSteps(more, k + 1)

\* a path of legal steps from two empty jugs to the target, within capacity
IsJugPath(path) ==
    /\ Len(path) >= 1
    /\ path[1] = <<0, 0>>
    /\ HoldsTarget(path[Len(path)])
    /\ \A k \in 1..Len(path) : path[k] \in JugStates
    /\ \A k \in 1..(Len(path) - 1) : LegalJugStep(path[k], path[k + 1])

C28_Returned ==
    LET shortest == ShortestJugSteps({<<0, 0>>}, 0)
    IN  /\ bfs_path # <<>> =>
              IF shortest = {} THEN bfs_path[1].none
              ELSE /\ ~bfs_path[1].none
                   /\ IsJugPath(bfs_path[1].path)
                   /\ shortest = {Len(bfs_path[1].path) - 1}
        /\ dfs_path # <<>> =>
              /\ dfs_path[1].none <=> bfs_path[1].none
              /\ ~dfs_path[1].none => Len(dfs_path[1].path) >= Len(bfs_path[1].path)

\* C28: solve_bfs terminates; it returns a shortest path of legal steps from
\* (0, 0) to a state holding the target, within the capacities, or None exactly
\* when no reachable state holds the target; solve_dfs returns a path exactly
\* when solve_bfs does, never a shorter one.
C28_BfsShortestDfsAgrees ==
    /\ [](program = "water jug" => C28_Returned)
    /\ <>(program = "water jug" => bfs_path # <<>>)

\* both searches returned a path and that of solve_dfs is the longer one
C28_Witness ==
    /\ program = "water jug"
    /\ jug_pc = "done"
    /\ ~bfs_path[1].none /\ ~dfs_path[1].none
    /\ Len(bfs_path[1].path) >= 5
    /\ Len(dfs_path[1].path) > Len(bfs_path[1].path)

\* the target is out of reach and both searches returned None
C28_NoneReturned ==
    /\ program = "water jug"
    /\ jug_pc = "done"
    /\ bfs_path[1].none /\ dfs_path[1].none
    /\ jug_target <= jug1_capacity

=============================================================================
